---- MODULE Spec2Model ----
(***************************************************************************)
(* Model of the response decoder of buganize (src/buganize/api/parser.py   *)
(* and src/buganize/api/models.py).                                        *)
(*                                                                         *)
(* Python values are tagged records [t |-> tag, v |-> payload]:            *)
(*   null  : None                  bool : True / False                     *)
(*   int   : an int                float: a float (v = its integral value) *)
(*   str   : a string, v = the sequence of its characters                  *)
(*   list  : a list,   v = the sequence of its elements                    *)
(*   obj   : a dict decoded from a JSON object, v = function on the keys   *)
(* The outcome of a call is [raised |-> exception name or "", val |-> v].  *)
(***************************************************************************)
EXTENDS Integers, Sequences, FiniteSets, TLC

VARIABLES op, arg, ret, pc

vars == <<op, arg, ret, pc>>

(* ---------------------------- bounds ----------------------------------- *)

MaxChain == 3

MaxEntries == 2

MaxUpdates == 3

(* ------------------------- Python values -------------------------------- *)

JNull == [t |-> "null", v |-> 0]

JBool(b) == [t |-> "bool", v |-> b]

JInt(n) == [t |-> "int", v |-> n]

JFloat(n) == [t |-> "float", v |-> n]

JStr(s) == [t |-> "str", v |-> s]

JList(s) == [t |-> "list", v |-> s]

JObj(f) == [t |-> "obj", v |-> f]

(* bool(x): the truth value Python gives to x in "not x", "x or y", "if x" *)
Truthy(x) ==
  CASE x.t = "null" -> FALSE
    [] x.t = "bool" -> x.v
    [] x.t = "int" -> x.v # 0
    [] x.t = "float" -> x.v # 0
    [] x.t = "str" -> Len(x.v) > 0
    [] x.t = "list" -> Len(x.v) > 0
    [] x.t = "obj" -> DOMAIN x.v # {}
    [] OTHER -> TRUE

(* isinstance(x, int): bool is a subclass of int *)
IsInstanceInt(x) == x.t \in {"int", "bool"}

IsInstanceList(x) == x.t = "list"

IsInstanceStr(x) == x.t = "str"

(* the int a bool or an int stands for in arithmetic *)
IntOf(x) == IF x.t = "bool" THEN (IF x.v THEN 1 ELSE 0) ELSE x.v

(* x or y *)
PyOr(x, y) == IF Truthy(x) THEN x ELSE y

(* --------------------------- call outcomes ------------------------------ *)

Return(v) == [raised |-> "", val |-> v]

Raise(e) == [raised |-> e, val |-> JNull]

Raised(r) == r.raised # ""

(* statements in sequence: an exception of the first ends the evaluation,  *)
(* else the rest runs with the value of the first                          *)
Bind(outcome, Rest(_)) == IF Raised(outcome) THEN outcome ELSE Rest(outcome.val)

(* an evaluation that raises exc before outcome unless exc is ""           *)
Guard(exc, outcome) == IF exc # "" THEN Raise(exc) ELSE outcome

(* ------------------------- current[index] ------------------------------- *)

(* One subscription current[index] with an int index: the element, or the  *)
(* exception the built-in type raises.                                      *)
Subscript(current, index) ==
  CASE current.t \in {"list", "str"} ->
         LET n == Len(current.v) IN
         IF index >= 0 /\ index < n
           THEN Return(IF current.t = "list" THEN current.v[index + 1]
                       ELSE JStr(<<current.v[index + 1]>>))
         ELSE IF index < 0 /\ index >= -n
           THEN Return(IF current.t = "list" THEN current.v[n + index + 1]
                       ELSE JStr(<<current.v[n + index + 1]>>))
         ELSE Raise("IndexError")
    [] current.t = "obj" -> Raise("KeyError")
    [] OTHER -> Raise("TypeError")

(* an except clause that forgets KeyError *)
SafeGetCaught_NoKeyError == {"IndexError", "TypeError"}

(* the except clause of _safe_get *)
SafeGetCaught == {"IndexError", "TypeError", "KeyError"}

RECURSIVE SafeGetLoop(_, _, _)

(* one turn of the loop, given the outcome of current[index] *)
SafeGetStep(step, rest, default) ==
  IF Raised(step)
    THEN (IF step.raised \in SafeGetCaught THEN Return(default) ELSE step)
    ELSE SafeGetLoop(step.val, rest, default)

SafeGetLoop(current, indices, default) ==
  IF indices = <<>> THEN Return(current)
  ELSE SafeGetStep(Subscript(current, Head(indices)), Tail(indices), default)

_safe_get(array, indices, default) == SafeGetLoop(array, indices, default)

(* _safe_get of a call site that cannot raise: the value *)
Get(array, indices, default) == _safe_get(array, indices, default).val

(* ------------------------ str() and f-strings --------------------------- *)

DigitChars == <<"0", "1", "2", "3", "4", "5", "6", "7", "8", "9">>

RECURSIVE NatDigits(_)
NatDigits(n) ==
  IF n < 10 THEN <<DigitChars[n + 1]>>
  ELSE NatDigits(n \div 10) \o <<DigitChars[(n % 10) + 1]>>

IntDigits(n) == IF n < 0 THEN <<"-">> \o NatDigits(-n) ELSE NatDigits(n)

(* str(x) as the sequence of its characters; the repr of a container is    *)
(* one opaque token                                                        *)
PyStr(x) ==
  CASE x.t = "null" -> <<"N", "o", "n", "e">>
    [] x.t = "bool" -> IF x.v THEN <<"T", "r", "u", "e">> ELSE <<"F", "a", "l", "s", "e">>
    [] x.t = "int" -> IntDigits(x.v)
    [] x.t = "float" -> IntDigits(x.v) \o <<".", "0">>
    [] x.t = "str" -> x.v
    [] OTHER -> <<"<repr>">>

(* ------------------------- models.py: enums ------------------------------ *)

(* int.__new__(cls, value) inside _missing_: the exception it raises, or "" *)
IntNewRaises(value) ==
  CASE value.t \in {"int", "bool", "float"} -> ""
    [] value.t = "str" ->
         IF Len(value.v) > 0 /\ \A i \in 1..Len(value.v) : \E d \in 1..10 : value.v[i] = DigitChars[d]
           THEN "" ELSE "ValueError"
    [] OTHER -> "TypeError"

IsNumber(x) == x.t \in {"int", "bool", "float"}

(* an IntEnum without a _missing_ hook: a value that is no member's is a   *)
(* ValueError                                                              *)
EnumCall_NoMissingHook(known, prefix, value) ==
  IF IsNumber(value) /\ IntOf(value) \in DOMAIN known
    THEN Return([t |-> "member", name |-> <<known[IntOf(value)]>>,
                 value |-> JInt(IntOf(value))])
  ELSE Raise("ValueError")

(* EnumType(value) for an IntEnum with the members `known` (value -> name) *)
(* and a _missing_ hook that names the new member prefix + str(value)      *)
EnumCall(known, prefix, value) ==
  IF IsNumber(value) /\ IntOf(value) \in DOMAIN known
    THEN Return([t |-> "member", name |-> <<known[IntOf(value)]>>,
                 value |-> JInt(IntOf(value))])
  ELSE IF IntNewRaises(value) # "" THEN Raise(IntNewRaises(value))
  ELSE Return([t |-> "member", name |-> <<prefix>> \o PyStr(value), value |-> value])

StatusMembers ==
  1 :> "NEW" @@ 2 :> "ASSIGNED" @@ 3 :> "ACCEPTED" @@ 4 :> "FIXED" @@ 5 :> "VERIFIED"
  @@ 6 :> "NOT_REPRODUCIBLE" @@ 7 :> "INTENDED_BEHAVIOR" @@ 8 :> "OBSOLETE"
  @@ 9 :> "INFEASIBLE" @@ 10 :> "DUPLICATE"

Status(value) == EnumCall(StatusMembers, "UNKNOWN_", value)

PriorityMembers == 0 :> "P0" @@ 1 :> "P1" @@ 2 :> "P2" @@ 3 :> "P3" @@ 4 :> "P4"

Priority(value) == EnumCall(PriorityMembers, "P", value)

IssueTypeMembers ==
  1 :> "BUG" @@ 2 :> "FEATURE_REQUEST" @@ 3 :> "CUSTOMER_ISSUE" @@ 4 :> "INTERNAL_CLEANUP"
  @@ 5 :> "PROCESS" @@ 6 :> "VULNERABILITY"

IssueType(value) == EnumCall(IssueTypeMembers, "TYPE_", value)

CUSTOM_FIELD_IDS ==
  1225362 :> "backlog_rank" @@ 1223033 :> "build_number" @@ 1223031 :> "chromium_labels"
  @@ 1222907 :> "component_tags" @@ 1223136 :> "cve" @@ 1410892 :> "cwe_id"
  @@ 1223032 :> "design_doc" @@ 1223131 :> "design_summary" @@ 1225337 :> "estimated_days"
  @@ 1223081 :> "flaky_test" @@ 1223087 :> "merge" @@ 1223134 :> "merge_request"
  @@ 1223085 :> "milestone" @@ 1225154 :> "next_action" @@ 1223083 :> "notice"
  @@ 1223084 :> "os" @@ 1223086 :> "release_block" @@ 1223034 :> "respin"
  @@ 1300460 :> "irm_link" @@ 1223088 :> "security_release" @@ 1223135 :> "vrp_reward"
  @@ 1358989 :> "fixed_by_code_changes" @@ 1253656 :> "component_ancestor_tags"
  @@ 1544844 :> "introduced_in"

(* ------------------ parser.py: names bound at run time ------------------- *)

(* typing.TYPE_CHECKING while the program runs *)
TYPE_CHECKING == FALSE

(* names the module binds unconditionally: its imports and its functions   *)
ParserModuleNames ==
  { "json", "t", "datetime", "timezone", "CUSTOM_FIELD_IDS",
    "strip_response_prefix", "parse_json_response", "_safe_get", "_parse_timestamp",
    "_parse_email", "_parse_ccs", "_parse_int_list", "_parse_custom_field_values",
    "parse_issue_from_entry", "parse_search_response", "parse_issue_detail_response",
    "parse_batch_response", "_parse_field_changes", "_parse_comment",
    "parse_updates_response" }

(* names imported under "if t.TYPE_CHECKING:" only *)
TypeCheckingNames ==
  { "Comment", "FieldChange", "Issue", "IssueType", "IssueUpdate",
    "IssueUpdatesResult", "Priority", "SearchResult", "Status" }

ParserGlobals ==
  ParserModuleNames \cup (IF TYPE_CHECKING THEN TypeCheckingNames ELSE {})

(* loading a global name: "" when bound, else the exception *)
LoadGlobal(name) == IF name \in ParserGlobals THEN "" ELSE "NameError"

(* --------------------- parser.py: primitive extractors ------------------- *)

NanosPerSecond == 1000000000

(* an aware UTC datetime: whole seconds and nanoseconds since the epoch *)
Datetime(seconds, nanos) ==
  [t |-> "datetime",
   v |-> <<seconds + (nanos \div NanosPerSecond), nanos % NanosPerSecond>>]

(* A number too large for the machine integers of the model is written   *)
(* sign * digits * 10^exp: Big(t, sign, digits, exp); v holds the sign.    *)
(* The floats inf and nan (JSON 1e400, NaN) carry their name in special.   *)
Big(t, sign, digits, exp) == [t |-> t, v |-> sign, digits |-> digits, exp |-> exp]

Special(sign, name) == [t |-> "float", v |-> sign, special |-> name]

IsBig(x) == "digits" \in DOMAIN x

IsSpecial(x) == "special" \in DOMAIN x

(* digits of d, then zeros, cut at n digits *)
Padded(d, n) == [i \in 1..n |-> IF i <= Len(d) THEN d[i] ELSE 0]

RECURSIVE LexAtLeast(_, _)
LexAtLeast(d, limit) ==
  IF d = <<>> THEN TRUE
  ELSE IF Head(d) # Head(limit) THEN Head(d) > Head(limit)
  ELSE LexAtLeast(Tail(d), Tail(limit))

(* digits * 10^exp >= limit * 10^(count - Len(limit)), count digits in all *)
AtLeast(digits, count, limit, limit_count) ==
  \/ count > limit_count
  \/ count = limit_count /\ LexAtLeast(Padded(digits, Len(limit)), limit)

(* 253402300800: the first second after 9999-12-31T23:59:59 *)
YearLimit == <<2, 5, 3, 4, 0, 2, 3, 0, 0, 8>>

(* 62135596801: the first second before 0001-01-01T00:00:00, negated *)
YearLimitBefore == <<6, 2, 1, 3, 5, 5, 9, 6, 8, 0, 1>>

(* 67768036191676800: the first second whose year gmtime cannot hold, so  *)
(* that fromtimestamp raises OSError (errno EOVERFLOW)                     *)
GmtimeLimit == <<6, 7, 7, 6, 8, 0, 3, 6, 1, 9, 1, 6, 7, 6, 8>>

(* 2^63 - 512 = 9223372036854775296: the first number that the float sum   *)
(* rounds to 2^63, the first value outside a 64-bit time_t                 *)
TimeTLimit == <<9, 2, 2, 3, 3, 7, 2, 0, 3, 6, 8, 5, 4, 7, 7, 5, 2, 9, 6>>

(* 2^1024, about 1.797693e308: the first int that float() cannot hold *)
FloatLimit == <<1, 7, 9, 7, 6, 9, 3, 1, 3, 4, 8, 6, 2, 3, 1, 5, 8>>

(* int too large to convert to float *)
BeyondFloat(x) ==
  IsBig(x) /\ x.t = "int" /\ AtLeast(x.digits, Len(x.digits) + x.exp, FloatLimit, 309)

(* where value * 10^(-shift) lies for datetime.fromtimestamp: the          *)
(* exception it raises, or "" when the value is an instant                 *)
FromTimestampRaises(x, shift) ==
  CASE IsSpecial(x) -> IF x.special = "nan" THEN "ValueError" ELSE "OverflowError"
    [] IsBig(x) ->
         IF AtLeast(x.digits, Len(x.digits) + x.exp - shift, TimeTLimit, 19)
           THEN "OverflowError"
         ELSE IF AtLeast(x.digits, Len(x.digits) + x.exp - shift, GmtimeLimit, 17)
           THEN "OSError"
         ELSE IF AtLeast(x.digits, Len(x.digits) + x.exp - shift,
                         IF x.v < 0 THEN YearLimitBefore ELSE YearLimit,
                         IF x.v < 0 THEN 11 ELSE 12)
           THEN "ValueError"
         ELSE ""
    [] OTHER -> ""

(* the try block: seconds + nanos / 1e9, then datetime.fromtimestamp *)
TimestampOf(seconds, nanos) ==
  CASE ~IsNumber(nanos) -> Raise("TypeError")
    [] IsNumber(nanos) /\ BeyondFloat(nanos) -> Raise("OverflowError")
    [] IsNumber(nanos) /\ ~BeyondFloat(nanos) /\ ~IsNumber(seconds) -> Raise("TypeError")
    [] IsNumber(nanos) /\ ~BeyondFloat(nanos) /\ IsNumber(seconds) /\ BeyondFloat(seconds) ->
         Raise("OverflowError")
    [] OTHER ->
         IF FromTimestampRaises(seconds, 0) # "" THEN Raise(FromTimestampRaises(seconds, 0))
         ELSE IF FromTimestampRaises(nanos, 9) # "" THEN Raise(FromTimestampRaises(nanos, 9))
         ELSE IF IsBig(seconds) \/ IsBig(nanos)
           THEN Return([t |-> "datetime", v |-> <<0, 0>>, of |-> <<seconds, nanos>>])
         ELSE Return(Datetime(IntOf(seconds), IntOf(nanos)))

(* except (TypeError, ValueError, OSError) *)
TimestampCaught == {"TypeError", "ValueError", "OSError"}

(* the try statement: a caught exception gives None *)
TimestampTry(outcome) ==
  IF outcome.raised \in TimestampCaught THEN Return(JNull) ELSE outcome

_parse_timestamp(raw_timestamp) ==
  IF ~Truthy(raw_timestamp) \/ ~IsInstanceList(raw_timestamp) \/ Len(raw_timestamp.v) < 1
    THEN Return(JNull)
  ELSE TimestampTry(TimestampOf(raw_timestamp.v[1],
                                IF Len(raw_timestamp.v) > 1 THEN raw_timestamp.v[2]
                                ELSE JInt(0)))

(* "@" in item *)
HasAt(item) == \E i \in 1..Len(item.v) : item.v[i] = "@"

(* the test with the emptiness check forgotten *)
LooksLikeEmail_AnyString(item) == IsInstanceStr(item)

(* isinstance(item, str) and ("@" in item or item) *)
LooksLikeEmail(item) == IsInstanceStr(item) /\ (HasAt(item) \/ Truthy(item))

RECURSIVE FirstString(_)
FirstString(items) ==
  IF items = <<>> THEN JNull
  ELSE IF LooksLikeEmail(Head(items)) THEN Head(items)
  ELSE FirstString(Tail(items))

_parse_email(user_array) ==
  IF ~Truthy(user_array) \/ ~IsInstanceList(user_array) THEN JNull
  ELSE FirstString(user_array.v)

RECURSIVE CcLoop(_)
CcLoop(entries) ==
  IF entries = <<>> THEN <<>>
  ELSE LET email == _parse_email(Head(entries)) IN
       (IF Truthy(email) THEN <<email>> ELSE <<>>) \o CcLoop(Tail(entries))

_parse_ccs(raw_ccs) ==
  IF ~Truthy(raw_ccs) \/ ~IsInstanceList(raw_ccs) THEN <<>>
  ELSE CcLoop(raw_ccs.v)

_parse_int_list(raw_list) ==
  IF ~Truthy(raw_list) \/ ~IsInstanceList(raw_list) THEN <<>>
  ELSE SelectSeq(raw_list.v, IsInstanceInt)

(* ------------------- parser.py: custom-field decoder --------------------- *)

(* a dict[str, Any] in insertion order: a sequence of [key, value] *)
DictHas(d, key) == \E i \in 1..Len(d) : d[i].key = key

DictGet(d, key) == d[CHOOSE i \in 1..Len(d) : d[i].key = key].value

DictSet(d, key, value) ==
  IF DictHas(d, key)
    THEN [i \in 1..Len(d) |-> IF d[i].key = key THEN [key |-> key, value |-> value] ELSE d[i]]
    ELSE Append(d, [key |-> key, value |-> value])

DictRemove(d, key) == SelectSeq(d, LAMBDA item : item.key # key)

(* CUSTOM_FIELD_IDS.get(field_id, f"field_{field_id}") for a hashable id *)
FieldName(field_id) ==
  IF IsNumber(field_id) /\ IntOf(field_id) \in DOMAIN CUSTOM_FIELD_IDS
    THEN <<CUSTOM_FIELD_IDS[IntOf(field_id)]>>
    ELSE <<"field_">> \o PyStr(field_id)

Hashable(x) == x.t \notin {"list", "obj"}

(* the loops over label_values / enum_values *)
RECURSIVE FlattenGroups(_)
FlattenGroups(groups) ==
  IF groups = <<>> THEN <<>>
  ELSE LET group == Head(groups) IN
       (CASE IsInstanceList(group) -> SelectSeq(group.v, IsInstanceStr)
          [] IsInstanceStr(group) -> <<group>>
          [] OTHER -> <<>>) \o FlattenGroups(Tail(groups))

FlatOf(slot) ==
  IF Truthy(slot) /\ IsInstanceList(slot) THEN FlattenGroups(slot.v) ELSE <<>>

(* the body of the for loop for one list-shaped, non-empty entry *)
ClassifyEntry(parsed_fields, entry) ==
  LET field_name == FieldName(entry.v[1])
      display_string == Get(entry, <<9>>, JNull)
      numeric_value == Get(entry, <<4>>, JNull)
      flat_labels == FlatOf(Get(entry, <<5>>, JNull))
      flat_enums == FlatOf(Get(entry, <<7>>, JNull))
  IN CASE IsNumber(numeric_value) -> DictSet(parsed_fields, field_name, numeric_value)
       [] ~IsNumber(numeric_value) /\ flat_labels # <<>> ->
            DictSet(parsed_fields, field_name, JList(flat_labels))
       [] ~IsNumber(numeric_value) /\ flat_labels = <<>> /\ flat_enums # <<>> ->
            DictSet(parsed_fields, field_name, JList(flat_enums))
       [] OTHER ->
            IF Truthy(display_string) /\ IsInstanceStr(display_string)
              THEN DictSet(parsed_fields, field_name, display_string)
              ELSE parsed_fields

RECURSIVE CustomFieldLoop(_, _)
CustomFieldLoop(entries, parsed_fields) ==
  IF entries = <<>> THEN Return(parsed_fields)
  ELSE LET entry == Head(entries) IN
       IF ~IsInstanceList(entry) \/ Len(entry.v) < 1
         THEN CustomFieldLoop(Tail(entries), parsed_fields)
       ELSE IF ~Hashable(entry.v[1]) THEN Raise("TypeError")
       ELSE CustomFieldLoop(Tail(entries), ClassifyEntry(parsed_fields, entry))

_parse_custom_field_values(raw_field_entries) ==
  IF ~Truthy(raw_field_entries) \/ ~IsInstanceList(raw_field_entries) THEN Return(<<>>)
  ELSE CustomFieldLoop(raw_field_entries.v, <<>>)

(* --------------------- parser.py: issue-entry decoder -------------------- *)

Whitespace == {" ", "\t", "\n", "\r"}

RECURSIVE LStrip(_)
LStrip(chars) ==
  IF chars # <<>> /\ Head(chars) \in Whitespace THEN LStrip(Tail(chars)) ELSE chars

RECURSIVE RStrip(_)
RStrip(chars) ==
  IF chars # <<>> /\ chars[Len(chars)] \in Whitespace
    THEN RStrip(SubSeq(chars, 1, Len(chars) - 1)) ELSE chars

(* part.strip() *)
Strip(chars) == RStrip(LStrip(chars))

(* value.split(sep): the parts of chars between the separators *)
RECURSIVE SplitAt(_, _, _)
SplitAt(chars, sep, current) ==
  IF chars = <<>> THEN <<current>>
  ELSE IF Head(chars) = sep THEN <<current>> \o SplitAt(Tail(chars), sep, <<>>)
  ELSE SplitAt(Tail(chars), sep, Append(current, Head(chars)))

RECURSIVE StrippedParts(_)
StrippedParts(parts) ==
  IF parts = <<>> THEN <<>>
  ELSE (IF Strip(Head(parts)) # <<>> THEN <<JStr(Strip(Head(parts)))>> ELSE <<>>)
       \o StrippedParts(Tail(parts))

(* ", ".join(str(v) for v in values) *)
RECURSIVE JoinCommaSpace(_)
JoinCommaSpace(values) ==
  IF values = <<>> THEN <<>>
  ELSE IF Len(values) = 1 THEN PyStr(values[1])
  ELSE PyStr(values[1]) \o <<",", " ">> \o JoinCommaSpace(Tail(values))

(* custom_fields.pop(key, None) *)
PopValue(custom_fields, name) ==
  IF DictHas(custom_fields, <<name>>) THEN DictGet(custom_fields, <<name>>) ELSE JNull

pop_string_list(custom_fields, key) ==
  LET value == PopValue(custom_fields, key) IN
  CASE value.t = "null" -> JList(<<>>)
    [] value.t = "list" -> value
    [] value.t = "str" -> JList(StrippedParts(SplitAt(value.v, ",", <<>>)))
    [] OTHER -> JList(<<>>)

pop_string(custom_fields, key) ==
  LET value == PopValue(custom_fields, key) IN
  CASE value.t = "null" -> JNull
    [] value.t = "str" -> value
    [] value.t = "list" -> JStr(JoinCommaSpace(value.v))
    [] OTHER -> JStr(PyStr(value))

IsDigit(c) == \E d \in 1..10 : c = DigitChars[d]

RECURSIVE DigitsToNat(_)
DigitsToNat(chars) ==
  IF chars = <<>> THEN 0
  ELSE 10 * DigitsToNat(SubSeq(chars, 1, Len(chars) - 1))
       + (CHOOSE d \in 0..9 : chars[Len(chars)] = DigitChars[d + 1])

(* float(value) of a string: decimal digits with an optional sign, blanks  *)
(* around them ignored; any other text is a ValueError                     *)
IsDecimalText(chars) ==
  LET body == IF Strip(chars) # <<>> /\ Head(Strip(chars)) = "-"
                THEN Tail(Strip(chars)) ELSE Strip(chars)
  IN body # <<>> /\ \A i \in 1..Len(body) : IsDigit(body[i])

DecimalTextValue(chars) ==
  IF Head(Strip(chars)) = "-" THEN 0 - DigitsToNat(Tail(Strip(chars)))
  ELSE DigitsToNat(Strip(chars))

pop_float(custom_fields, key) ==
  LET value == PopValue(custom_fields, key) IN
  CASE value.t = "null" -> JNull
    [] IsNumber(value) -> JFloat(IntOf(value))
    [] value.t = "str" /\ IsDecimalText(value.v) -> JFloat(DecimalTextValue(value.v))
    [] OTHER -> JNull

(* the keys the keyword arguments of the Issue(...) call pop, in order *)
PoppedKeys ==
  << "component_tags", "component_ancestor_tags", "chromium_labels", "os", "milestone",
     "merge", "merge_request", "release_block", "cve", "cwe_id", "vrp_reward",
     "estimated_days", "build_number", "flaky_test", "next_action", "notice",
     "introduced_in", "irm_link", "security_release", "fixed_by_code_changes" >>

RECURSIVE PopAll(_, _)
PopAll(custom_fields, keys) ==
  IF keys = <<>> THEN custom_fields
  ELSE PopAll(DictRemove(custom_fields, <<Head(keys)>>), Tail(keys))

(* the fields of the Issue dataclass: the keywords Issue.__init__ accepts *)
IssueDataclassFields ==
  { "id", "title", "status", "priority", "issue_type", "reporter", "owner", "verifier",
    "component_id", "ccs", "created_at", "modified_at", "verified_at", "comment_count",
    "star_count", "tracker_id", "last_modifier", "hotlist_ids", "blocking_issue_ids",
    "component_tags", "component_ancestor_tags", "labels", "os", "milestone", "merge",
    "merge_request", "release_block", "cve", "cwe_id", "vrp_reward", "estimated_days",
    "build_number", "flaky_test", "next_action", "notice", "introduced_in", "irm_link",
    "security_release", "fixed_by_code_changes", "custom_fields" }

(* calling a dataclass with keyword arguments: "" or the exception *)
DataclassInitRaises(fields, keywords) ==
  IF keywords \subseteq fields THEN "" ELSE "TypeError"

(* the first exception of a sequence of exception names ("" = none) *)
RECURSIVE FirstRaised(_)
FirstRaised(excs) ==
  IF excs = <<>> THEN ""
  ELSE IF Head(excs) # "" THEN Head(excs)
  ELSE FirstRaised(Tail(excs))

(* Status(status_value) if status_value else Status.NEW *)
StatusArgument(status_value) ==
  IF Truthy(status_value) THEN Status(status_value) ELSE Status(JInt(1))

(* (priority_raw - 1) if isinstance(priority_raw, int) else 2, then        *)
(* Priority(priority_value); priority_value is never None                  *)
PriorityArgument(priority_raw) ==
  Priority(IF IsInstanceInt(priority_raw) THEN JInt(IntOf(priority_raw) - 1) ELSE JInt(2))

(* IssueType(issue_type_value) if issue_type_value else None *)
IssueTypeArgument(issue_type_value) ==
  IF Truthy(issue_type_value) THEN IssueType(issue_type_value) ELSE Return(JNull)

(* star_count, reset to 0 when it is not an int *)
StarCount(star_count) == IF IsInstanceInt(star_count) THEN star_count ELSE JInt(0)

(* the keyword arguments of the Issue(...) call, evaluated in order; the   *)
(* enum constructors and the timestamps are the arguments that can raise   *)
IssueKeywordArguments(raw_entry, details, custom_fields, status, priority, issue_type, created_at, modified_at, verified_at) ==
  [ raised |-> FirstRaised(<<status.raised, priority.raised, issue_type.raised,
                             created_at.raised, modified_at.raised, verified_at.raised>>),
    val |->
      [ id |-> Get(raw_entry, <<1>>, JInt(0)),
        title |-> PyOr(Get(details, <<5>>, JStr(<<>>)), JStr(<<>>)),
        status |-> status.val,
        priority |-> priority.val,
        issue_type |-> issue_type.val,
        reporter |-> _parse_email(Get(details, <<6>>, JNull)),
        owner |-> _parse_email(Get(raw_entry, <<13>>, JNull)),
        verifier |-> _parse_email(Get(details, <<7>>, JNull)),
        component_id |-> Get(details, <<0>>, JNull),
        ccs |-> _parse_ccs(Get(details, <<9>>, JNull)),
        created_at |-> created_at.val,
        modified_at |-> modified_at.val,
        verified_at |-> verified_at.val,
        comment_count |-> PyOr(Get(raw_entry, <<11>>, JInt(0)), JInt(0)),
        star_count |-> StarCount(Get(raw_entry, <<9>>, JInt(0))),
        tracker_id |-> Get(raw_entry, <<41>>, JNull),
        last_modifier |-> _parse_email(Get(raw_entry, <<47>>, JNull)),
        hotlist_ids |-> _parse_int_list(Get(details, <<13>>, JNull)),
        blocking_issue_ids |-> _parse_int_list(Get(details, <<21>>, JNull)),
        component_tags |-> pop_string_list(custom_fields, "component_tags"),
        component_ancestor_tags |-> pop_string_list(custom_fields, "component_ancestor_tags"),
        chromium_labels |-> pop_string_list(custom_fields, "chromium_labels"),
        os |-> pop_string_list(custom_fields, "os"),
        milestone |-> pop_string_list(custom_fields, "milestone"),
        merge |-> pop_string_list(custom_fields, "merge"),
        merge_request |-> pop_string_list(custom_fields, "merge_request"),
        release_block |-> pop_string_list(custom_fields, "release_block"),
        cve |-> pop_string_list(custom_fields, "cve"),
        cwe_id |-> pop_float(custom_fields, "cwe_id"),
        vrp_reward |-> pop_float(custom_fields, "vrp_reward"),
        estimated_days |-> pop_float(custom_fields, "estimated_days"),
        build_number |-> pop_string(custom_fields, "build_number"),
        flaky_test |-> pop_string(custom_fields, "flaky_test"),
        next_action |-> pop_string(custom_fields, "next_action"),
        notice |-> pop_string(custom_fields, "notice"),
        introduced_in |-> pop_string(custom_fields, "introduced_in"),
        irm_link |-> pop_string(custom_fields, "irm_link"),
        security_release |-> pop_string_list(custom_fields, "security_release"),
        fixed_by_code_changes |-> pop_string_list(custom_fields, "fixed_by_code_changes"),
        custom_fields |-> PopAll(custom_fields, PoppedKeys) ] ]

(* the Issue call itself: the dataclass accepts only its own fields *)
IssueCall(arguments) ==
  Guard(DataclassInitRaises(IssueDataclassFields, DOMAIN arguments),
        Return([t |-> "Issue", v |-> arguments]))

(* the return statement: the name Issue is loaded, then the names and      *)
(* values of the arguments, then the call is made                          *)
ReturnIssue(raw_entry, details, custom_fields) ==
  Guard(LoadGlobal("Issue"),
    Guard(FirstRaised(<<LoadGlobal("Status"), LoadGlobal("Priority"), LoadGlobal("IssueType")>>),
      Bind(IssueKeywordArguments(raw_entry, details, custom_fields,
                                 StatusArgument(Get(details, <<2>>, JInt(1))),
                                 PriorityArgument(Get(details, <<3>>, JInt(3))),
                                 IssueTypeArgument(Get(details, <<1>>, JNull)),
                                 _parse_timestamp(Get(raw_entry, <<4>>, JNull)),
                                 _parse_timestamp(Get(raw_entry, <<5>>, JNull)),
                                 _parse_timestamp(Get(raw_entry, <<6>>, JNull))),
           IssueCall)))

(* the function body once details is extracted *)
DecodeIssue(raw_entry, details) ==
  Bind(_parse_custom_field_values(Get(details, <<14>>, JNull)),
       LAMBDA custom_fields : ReturnIssue(raw_entry, details, custom_fields))

parse_issue_from_entry(raw_entry) ==
  DecodeIssue(raw_entry, PyOr(Get(raw_entry, <<2>>, JList(<<>>)), JList(<<>>)))

(* --------------------- parser.py: response envelopes --------------------- *)

(* the prefixes with the CR LF form forgotten *)
ResponsePrefixes_NoCRLF ==
  << <<")", "]", "}", "'", "\n">>,
     <<")", "]", "}", "'", "\\", "n">>,
     <<")", "]", "}", "'", "\n">> >>

(* A response body is [head |-> characters, doc |-> value]: the text is    *)
(* the characters of head followed by the JSON text of doc.                *)
ResponsePrefixes ==
  << <<")", "]", "}", "'", "\n">>,
     <<")", "]", "}", "'", "\\", "n">>,
     <<")", "]", "}", "'", "\r", "\n">> >>

StartsWith(chars, prefix) ==
  Len(chars) >= Len(prefix) /\ SubSeq(chars, 1, Len(prefix)) = prefix

RECURSIVE StripLoop(_, _)
StripLoop(raw_text, prefixes) ==
  IF prefixes = <<>> THEN raw_text
  ELSE IF StartsWith(raw_text.head, Head(prefixes))
    THEN [raw_text EXCEPT !.head = SubSeq(raw_text.head, Len(Head(prefixes)) + 1,
                                          Len(raw_text.head))]
  ELSE StripLoop(raw_text, Tail(prefixes))

strip_response_prefix(raw_text) == StripLoop(raw_text, ResponsePrefixes)

(* json.loads: blanks before the document are skipped, anything else is a *)
(* JSONDecodeError                                                         *)
json_loads(text) ==
  IF \A i \in 1..Len(text.head) : text.head[i] \in Whitespace
    THEN Return(text.doc) ELSE Raise("JSONDecodeError")

parse_json_response(raw_text) == json_loads(strip_response_prefix(raw_text))

RECURSIVE KeysOf(_)
KeysOf(keys) ==
  IF keys = {} THEN <<>>
  ELSE LET k == CHOOSE k \in keys : TRUE IN <<JStr(<<k>>)>> \o KeysOf(keys \ {k})

(* iter(x) of a for loop or comprehension: the items (the characters of a  *)
(* string, the keys of a dict), or TypeError                               *)
Iterate(x) ==
  CASE x.t = "list" -> Return(x.v)
    [] x.t = "str" -> Return([i \in 1..Len(x.v) |-> JStr(<<x.v[i]>>)])
    [] x.t = "obj" -> Return(KeysOf(DOMAIN x.v))
    [] OTHER -> Raise("TypeError")

IsIssueShaped(entry) ==
  IsInstanceList(entry) /\ IsInstanceInt(Get(entry, <<1>>, JNull))

(* [parse_issue_from_entry(entry) for entry in entries if the test holds], *)
(* left to right; the first exception ends it                              *)
RECURSIVE DecodeEntries(_, _, _)
DecodeEntries(entries, needs_int_id, issues) ==
  IF entries = <<>> THEN Return(issues)
  ELSE IF ~(IF needs_int_id THEN IsIssueShaped(Head(entries)) ELSE IsInstanceList(Head(entries)))
    THEN DecodeEntries(Tail(entries), needs_int_id, issues)
  ELSE Bind(parse_issue_from_entry(Head(entries)),
            LAMBDA issue : DecodeEntries(Tail(entries), needs_int_id, Append(issues, issue)))

(* page_token if page_token else None *)
TokenOrNone(page_token) == IF Truthy(page_token) THEN page_token ELSE JNull

(* the function body once result_block is extracted *)
DecodeSearchBlock(result_block, query, page_size) ==
  Bind(Iterate(PyOr(Get(result_block, <<0>>, JList(<<>>)), JList(<<>>))),
       LAMBDA raw_issues :
         Bind(DecodeEntries(raw_issues, FALSE, <<>>),
              LAMBDA issues :
                Guard(LoadGlobal("SearchResult"),
                      Return([t |-> "SearchResult",
                              v |-> [issues |-> issues,
                                     total_count |-> PyOr(Get(result_block, <<2>>, JInt(0)),
                                                          JInt(0)),
                                     next_page_token |-> TokenOrNone(Get(result_block, <<1>>,
                                                                         JNull)),
                                     query |-> query,
                                     page_size |-> page_size]]))))

parse_search_response(raw_text, query, page_size) ==
  Bind(parse_json_response(raw_text),
       LAMBDA data :
         DecodeSearchBlock(Get(Get(data, <<0>>, JList(<<>>)), <<6>>, JList(<<>>)),
                           query, page_size))

(* the backward scan: the index of the last issue-shaped element, 0 if none *)
RECURSIVE ScanBackward(_, _)
ScanBackward(payload, i) ==
  IF i < 1 THEN 0
  ELSE IF IsIssueShaped(payload.v[i]) THEN i
  ELSE ScanBackward(payload, i - 1)

(* the function body once payload is extracted *)
DecodeDetailPayload(payload, found) ==
  IF found = 0 THEN Raise("ValueError") ELSE parse_issue_from_entry(payload.v[found])

FindIssueEntry(payload) ==
  IF IsInstanceList(payload) /\ Len(payload.v) > 0
    THEN ScanBackward(payload, Len(payload.v)) ELSE 0

parse_issue_detail_response(raw_text) ==
  Bind(parse_json_response(raw_text),
       LAMBDA data :
         DecodeDetailPayload(Get(Get(data, <<0>>, JList(<<>>)), <<1>>, JList(<<>>)),
                             FindIssueEntry(Get(Get(data, <<0>>, JList(<<>>)), <<1>>,
                                                JList(<<>>)))))

parse_batch_response(raw_text) ==
  Bind(parse_json_response(raw_text),
       LAMBDA data :
         Bind(Iterate(PyOr(Get(Get(Get(data, <<0>>, JList(<<>>)), <<2>>, JList(<<>>)),
                               <<0>>, JList(<<>>)),
                           JList(<<>>))),
              LAMBDA raw_issues : DecodeEntries(raw_issues, TRUE, <<>>)))

(* -------------------- parser.py: comments and updates -------------------- *)

RECURSIVE FieldChangeLoop(_, _)
FieldChangeLoop(entries, changes) ==
  IF entries = <<>> THEN Return(changes)
  ELSE LET entry == Head(entries) IN
       IF ~IsInstanceList(entry) \/ Len(entry.v) < 1
         THEN FieldChangeLoop(Tail(entries), changes)
       ELSE IF LoadGlobal("FieldChange") # "" THEN Raise(LoadGlobal("FieldChange"))
       ELSE FieldChangeLoop(Tail(entries),
              Append(changes, [t |-> "FieldChange",
                               v |-> [field |-> JStr(PyStr(entry.v[1])),
                                      old_value |-> JNull, new_value |-> JNull]]))

_parse_field_changes(raw_changes) ==
  IF ~Truthy(raw_changes) \/ ~IsInstanceList(raw_changes) THEN Return(<<>>)
  ELSE FieldChangeLoop(raw_changes.v, <<>>)

(* sequence_number + 1 *)
PlusOne(x) ==
  IF IsNumber(x)
    THEN Return([t |-> IF x.t = "float" THEN "float" ELSE "int", v |-> IntOf(x) + 1])
    ELSE Raise("TypeError")

_parse_comment(raw_comment, issue_id) ==
  IF ~Truthy(raw_comment) \/ ~IsInstanceList(raw_comment) THEN Return(JNull)
  ELSE Guard(LoadGlobal("Comment"),
         Bind(PlusOne(PyOr(Get(raw_comment, <<6>>, JInt(0)), JInt(0))),
              LAMBDA comment_number :
                Bind(_parse_timestamp(Get(raw_comment, <<3>>, JNull)),
                     LAMBDA timestamp :
                       Return([t |-> "Comment",
                               v |-> [issue_id |-> issue_id,
                                      comment_number |-> comment_number,
                                      author |-> _parse_email(Get(raw_comment, <<2>>, JNull)),
                                      timestamp |-> timestamp,
                                      body |-> PyOr(Get(raw_comment, <<0>>, JStr(<<>>)),
                                                    JStr(<<>>))]]))))

(* _parse_comment(comment_array, issue_id) if comment_array else None *)
CommentOf(comment_array, issue_id) ==
  IF Truthy(comment_array) THEN _parse_comment(comment_array, issue_id) ELSE Return(JNull)

(* the body of the for loop of parse_updates_response for a list entry,    *)
(* once issue_id is extracted                                              *)
DecodeUpdate(update_entry, issue_id) ==
  Bind(CommentOf(Get(update_entry, <<2>>, JNull), issue_id),
       LAMBDA comment :
         Guard(LoadGlobal("IssueUpdate"),
           Bind(_parse_timestamp(Get(update_entry, <<1>>, JNull)),
                LAMBDA timestamp :
                  Bind(_parse_field_changes(Get(update_entry, <<5>>, JNull)),
                       LAMBDA field_changes :
                         Return([t |-> "IssueUpdate",
                                 v |-> [issue_id |-> issue_id,
                                        sequence_number |-> Get(update_entry, <<3>>, JNull),
                                        author |-> _parse_email(Get(update_entry, <<0>>,
                                                                    JNull)),
                                        timestamp |-> timestamp,
                                        comment |-> comment,
                                        field_changes |-> field_changes]])))))

RECURSIVE UpdateLoop(_, _)
UpdateLoop(entries, updates) ==
  IF entries = <<>> THEN Return(updates)
  ELSE IF ~IsInstanceList(Head(entries)) THEN UpdateLoop(Tail(entries), updates)
  ELSE Bind(DecodeUpdate(Head(entries), PyOr(Get(Head(entries), <<9>>, JInt(0)), JInt(0))),
            LAMBDA update : UpdateLoop(Tail(entries), Append(updates, update)))

(* the function body once result_block is extracted *)
DecodeUpdatesBlock(result_block) ==
  Bind(Iterate(PyOr(Get(result_block, <<0>>, JList(<<>>)), JList(<<>>))),
       LAMBDA raw_updates :
         Bind(UpdateLoop(raw_updates, <<>>),
              LAMBDA updates :
                Guard(LoadGlobal("IssueUpdatesResult"),
                      Return([t |-> "IssueUpdatesResult",
                              v |-> [updates |-> updates,
                                     total_count |-> PyOr(Get(result_block, <<2>>, JInt(0)),
                                                          JInt(0)),
                                     next_page_token |-> TokenOrNone(Get(result_block, <<1>>,
                                                                         JNull))]]))))

parse_updates_response(raw_text) ==
  Bind(parse_json_response(raw_text),
       LAMBDA data :
         DecodeUpdatesBlock(Get(Get(data, <<0>>, JList(<<>>)), <<1>>, JList(<<>>))))

(* ------------------ models.py: IssueUpdatesResult.comments --------------- *)

(* reversed(self.updates) *)
Reversed(seq) == [i \in 1..Len(seq) |-> seq[Len(seq) + 1 - i]]

HasComment(u) == u.v.comment.t # "null"

RECURSIVE CommentsOf(_)
CommentsOf(updates) ==
  IF updates = <<>> THEN <<>>
  ELSE (IF HasComment(Head(updates)) THEN <<Head(updates).v.comment>> ELSE <<>>)
       \o CommentsOf(Tail(updates))

(* a comments property that forgets reversed() *)
IssueUpdatesResult_comments_NotReversed(self) == CommentsOf(self.v.updates)

IssueUpdatesResult_comments(self) == CommentsOf(Reversed(self.v.updates))

(* -------------------- models.py: has_more properties --------------------- *)

(* self.next_page_token is not None *)
SearchResult_has_more(self) == self.v.next_page_token.t # "null"

IssueUpdatesResult_has_more(self) == self.v.next_page_token.t # "null"

(* --------------------- client.py: search and next_page ------------------- *)

(* An HTTP exchange is [kind, text]: the transport fails, the server       *)
(* answers with an error status, or it answers 2xx with the body text.     *)
(* A client call gives its outcome with the requests it posted (posts)     *)
(* and the calls of search it made (searches).                             *)
Traced(outcome, posts, searches) ==
  [raised |-> outcome.raised, val |-> outcome.val, posts |-> posts, searches |-> searches]

(* [query, None, page_size, page_token] if page_token else [query, None, page_size] *)
QueryPayload(query, page_size, page_token) ==
  IF Truthy(page_token) THEN JList(<<query, JNull, page_size, page_token>>)
  ELSE JList(<<query, JNull, page_size>>)

(* self.tracker_ids if self.tracker_ids else None *)
TrackerFilter(tracker_ids) == IF Truthy(tracker_ids) THEN tracker_ids ELSE JNull

RequestBody(tracker_ids, query, page_size, page_token) ==
  JList(<<JNull, JNull, JNull, JNull, JNull, TrackerFilter(tracker_ids),
          QueryPayload(query, page_size, page_token)>>)

(* await self._http.post(...); response.raise_for_status(); the decode *)
Exchange(response, query, page_size) ==
  CASE response.kind = "transport_error" -> Raise("TransportError")
    [] response.kind = "status_error" -> Raise("HTTPStatusError")
    [] OTHER -> parse_search_response(response.text, query, page_size)

search(tracker_ids, query, page_size, page_token, response) ==
  IF ~Truthy(query) \/ Strip(query.v) = <<>>
    THEN Traced(Raise("ValueError"), <<>>, <<>>)
    ELSE Traced(Exchange(response, query, page_size),
                <<[url |-> "/issues/list",
                   json |-> RequestBody(tracker_ids, query, page_size, page_token)]>>,
                <<>>)

(* the outcome of a call made by next_page, with the call recorded *)
Delegated(outcome, call) ==
  Traced(outcome, outcome.posts, <<call>>)

next_page(tracker_ids, result, response) ==
  IF ~SearchResult_has_more(result) THEN Traced(Return(JNull), <<>>, <<>>)
  ELSE Delegated(search(tracker_ids, result.v.query, result.v.page_size,
                        result.v.next_page_token, response),
                 [query |-> result.v.query, page_size |-> result.v.page_size,
                  page_token |-> result.v.next_page_token])

(* -------------------------- cli.py: cmd_search --------------------------- *)

(* The server is the sequence of its answers to the requests of one run;   *)
(* a request after the last answer finds the server gone.                  *)
ResponseAt(responses, n) ==
  IF n <= Len(responses) THEN responses[n]
  ELSE [kind |-> "transport_error", text |-> [head |-> <<>>, doc |-> JNull]]

(* issues[:limit] *)
SliceTo(items, limit) ==
  IF limit >= 0 THEN SubSeq(items, 1, IF limit < Len(items) THEN limit ELSE Len(items))
  ELSE SubSeq(items, 1, IF Len(items) + limit > 0 THEN Len(items) + limit ELSE 0)

(* where a run of cmd_search stands: the exception that ended it, the      *)
(* latest result, the issues collected, and for every call of next_page    *)
(* whether the result it was given had more pages                          *)
Collected(raised, result, issues, asked) ==
  [raised |-> raised, result |-> result, issues |-> issues, asked |-> asked]

(* while len(issues) < limit: result = await client.next_page(result);     *)
(* issues.extend(result.issues)                                            *)
RECURSIVE CollectPages(_, _, _, _, _, _)
RECURSIVE ExtendIssues(_, _, _, _, _, _)
CollectPages(tracker_ids, limit, responses, result, issues, asked) ==
  IF ~(Len(issues) < limit) THEN Collected("", result, issues, asked)
  ELSE ExtendIssues(tracker_ids, limit, responses, issues,
                    Append(asked, SearchResult_has_more(result)),
                    next_page(tracker_ids, result, ResponseAt(responses, Len(asked) + 2)))

(* result.issues of the None that next_page returns is an AttributeError *)
ExtendIssues(tracker_ids, limit, responses, issues, asked, next) ==
  IF Raised(next) THEN Collected(next.raised, JNull, issues, asked)
  ELSE IF next.val.t = "null" THEN Collected("AttributeError", JNull, issues, asked)
  ELSE CollectPages(tracker_ids, limit, responses, next.val,
                    issues \o next.val.v.issues, asked)

(* if limit is not None: if result.has_more: the loop *)
CollectToLimit(tracker_ids, limit, responses, result) ==
  IF limit.t # "null" /\ SearchResult_has_more(result)
    THEN CollectPages(tracker_ids, IntOf(limit), responses, result, result.v.issues, <<>>)
    ELSE Collected("", result, result.v.issues, <<>>)

(* issues = issues[:limit], the listing that is printed, and the closing   *)
(* line when result.has_more                                               *)
PrintIssues(limit, run) ==
  IF run.raised # ""
    THEN [raised |-> run.raised,
          val |-> [printed |-> <<>>, asked |-> run.asked, more |-> FALSE]]
    ELSE [raised |-> "",
          val |-> [printed |-> IF limit.t = "null" THEN run.issues
                               ELSE SliceTo(run.issues, IntOf(limit)),
                   asked |-> run.asked,
                   more |-> SearchResult_has_more(run.result)]]

(* from the outcome of the first client.search on *)
AfterSearch(tracker_ids, limit, responses, first) ==
  IF Raised(first)
    THEN [raised |-> first.raised, val |-> [printed |-> <<>>, asked |-> <<>>, more |-> FALSE]]
    ELSE PrintIssues(limit, CollectToLimit(tracker_ids, limit, responses, first.val))

cmd_search(tracker_ids, query, per_page, limit, responses) ==
  AfterSearch(tracker_ids, limit, responses,
              search(tracker_ids, query, per_page, JNull, ResponseAt(responses, 1)))

(* ------------------------------ inputs ---------------------------------- *)

Leaves ==
  { JNull, JBool(TRUE), JInt(7), JFloat(2), JStr(<<"a", "b">>),
    JList(<<>>), JObj([k \in {"0"} |-> JInt(1)]) }

Containers1 ==
  Leaves \cup { JList(<<a, b>>) : a \in Leaves, b \in {JNull, JInt(7)} }

SafeGetArrays ==
  Containers1 \cup { JList(<<c, d>>) : c \in Containers1, d \in {JList(<<JInt(9)>>)} }

SafeGetIndices == {-3, -1, 0, 1, 2}

SafeGetChains == UNION { [1..n -> SafeGetIndices] : n \in 0..MaxChain }

SafeGetDefaults == { JNull, JStr(<<"d">>) }

SafeGetArgs ==
  { [array |-> a, indices |-> ix, default |-> d] :
      a \in SafeGetArrays, ix \in SafeGetChains, d \in SafeGetDefaults }

(* k slots that hold null *)
Nulls(k) == [i \in 1..k |-> JNull]

Text(token) == JStr(<<token>>)

WireIds == { JInt(5), JNull, Text("x"), JBool(TRUE) }

WireStatusCodes ==
  { JNull, JInt(0), JInt(1), JInt(4), JInt(10), JInt(11), JInt(-2), Text("x") }

WirePriorityCodes ==
  { JNull, JInt(0), JInt(1), JInt(3), JInt(5), JInt(6), JBool(TRUE), JFloat(2), Text("x") }

WireTypeCodes == { JNull, JInt(0), JInt(1), JInt(6), JInt(7), Text("x") }

(* a field entry of 10 slots: the id at slot 0, the labels at slot 5 *)
LabelEntry(field_id, labels) ==
  JList(<<field_id>> \o Nulls(4) \o <<JList(<<JList(labels)>>)>> \o Nulls(4))

WireCustomFields ==
  { JNull,
    JList(<<LabelEntry(JInt(1223084), <<Text("Linux"), Text("Mac")>>)>>),
    JList(<<LabelEntry(JInt(77), <<Text("v")>>), JNull>>),
    JList(<<LabelEntry(JList(<<JInt(1223084)>>), <<Text("Linux")>>)>>),
    JInt(3) }

(* a details array of 22 slots: component 0, type 1, status 2, priority 3, *)
(* title 5, reporter 6, hotlists 13, custom fields 14, blocking ids 21     *)
DetailsOf(issue_type, status, priority, custom, slot21) ==
  JList(<<JInt(999), issue_type, status, priority, JNull, Text("title"),
          JList(<<JNull, Text("r@x"), JInt(1)>>)>>
        \o Nulls(6)
        \o <<JList(<<JInt(3), Text("h")>>), custom>>
        \o Nulls(6)
        \o <<slot21>>)

Details(issue_type, status, priority, custom) ==
  DetailsOf(issue_type, status, priority, custom, JList(<<JInt(10), JInt(20)>>))

(* an issue entry of 48 slots: id 1, details 2, created 4, stars 9,        *)
(* comments 11, owner 13, tracker 41, last modifier 47                     *)
(* and the list the tests call blocking ids at slot 36                     *)
EntryOf(issue_id, details, stars, comments, slot36) ==
  JList(<<JNull, issue_id, details, JNull, JList(<<JInt(1700000000), JInt(0)>>)>>
        \o Nulls(4)
        \o <<stars, JNull, comments, JNull, JList(<<JNull, Text("o@x"), JInt(1)>>)>>
        \o Nulls(22)
        \o <<slot36>>
        \o Nulls(4)
        \o <<JInt(157)>>
        \o Nulls(5)
        \o <<JList(<<JNull, Text("m@x"), JInt(1)>>)>>)

Entry(issue_id, details) == EntryOf(issue_id, details, JInt(10), JInt(5), JNull)

MalformedDetails == { JNull, JInt(3), Text("x"), JList(<<>>), JList(<<JInt(9)>>), JObj(<<>>) }

IssueEntries ==
  { Entry(i, Details(ty, st, pr, cf)) :
      i \in WireIds, ty \in WireTypeCodes, st \in WireStatusCodes,
      pr \in WirePriorityCodes, cf \in WireCustomFields }
  \cup { Entry(i, d) : i \in WireIds, d \in MalformedDetails }
  \cup { JList(<<>>), JList(<<JNull>>), JList(<<JNull, JInt(5)>>),
         JList(<<JNull, JInt(5), Details(JInt(1), JInt(1), JInt(1), JNull)>>) }

(* the elements an envelope array may hold: issue entries and padding *)
GoodEntry(n) == Entry(JInt(n), Details(JInt(1), JInt(3), JInt(2), JNull))

ArrayElements ==
  { GoodEntry(1), GoodEntry(2), Entry(JNull, Details(JInt(1), JInt(3), JInt(2), JNull)),
    JNull, JInt(3), JList(<<>>), JList(<<JNull, Text("x")>>) }

SeqsUpTo(S, n) == UNION { [1..k -> S] : k \in 0..n }

ElementArrays ==
  { JList(q) : q \in SeqsUpTo(ArrayElements, MaxEntries) } \cup { JNull, JInt(3), Text("x") }

PageTokens == { JNull, JStr(<<>>), Text("next_token_abc") }

TotalCounts == { JNull, JInt(0), JInt(42) }

ResultBlocks ==
  { JList(<<a, tok, n>>) : a \in ElementArrays, tok \in PageTokens, n \in TotalCounts }
  \cup { JList(<<a>>) : a \in ElementArrays } \cup { JNull, JList(<<>>) }

ResponseHeads == << <<>>, ResponsePrefixes[1], ResponsePrefixes[2], ResponsePrefixes[3], <<")">> >>

Bodies(docs) == { [head |-> ResponseHeads[h], doc |-> d] : h \in 1..Len(ResponseHeads), d \in docs }

BadEnvelopes == { JNull, JList(<<>>), JList(<<JNull>>), JObj(<<>>) }

SearchBodies ==
  Bodies({ JList(<<JList(<<Text("b.IssueSearchResponse")>> \o Nulls(5) \o <<rb>>)>>) :
             rb \in ResultBlocks }
         \cup BadEnvelopes)

SearchArgs ==
  { [raw_text |-> b, query |-> q, page_size |-> n] :
      b \in SearchBodies, q \in {Text("status:open")}, n \in {JInt(50)} }

PaddedPayloads ==
  { JList([i \in 1..(k + Len(q)) |-> IF i <= k THEN JNull ELSE q[i - k]]) :
      k \in {0, 21}, q \in SeqsUpTo(ArrayElements, MaxEntries) }

DetailBodies ==
  Bodies({ JList(<<JList(<<Text("b.IssueFetchResponse"), pl>>)>>) :
             pl \in PaddedPayloads \cup { JNull, JInt(3), Text("x") } }
         \cup BadEnvelopes)

BatchBodies ==
  Bodies({ JList(<<JList(<<Text("b.BatchGetIssuesResponse"), JNull, w>>)>>) :
             w \in { JList(<<a>>) : a \in ElementArrays } \cup { JNull, JList(<<>>) } }
         \cup BadEnvelopes)

(* a comment array of 18 slots: text 0, author 2, timestamp 3, issue id 5, *)
(* sequence number 6                                                       *)
WireComment(text, seconds, sequence) ==
  JList(<<text, JNull, JList(<<JNull, Text("c@x"), JInt(1)>>), seconds, JNull, JInt(8),
          sequence>> \o Nulls(11))

(* an update entry of 10 slots: author 0, timestamp 1, comment 2,          *)
(* sequence 3, field changes 5, issue id 9                                 *)
WireUpdate(comment, changes, issue_id) ==
  JList(<<JList(<<JNull, Text("a@x"), JInt(1)>>), JList(<<JInt(1700000000), JInt(0)>>),
          comment, JInt(1), JNull, changes>> \o Nulls(3) \o <<issue_id>>)

UpdateElements ==
  { WireUpdate(WireComment(Text("newer"), JList(<<JInt(200)>>), JInt(1)), JNull, JInt(7)),
    WireUpdate(WireComment(Text("older"), JList(<<JInt(100)>>), JInt(0)), JNull, JInt(7)),
    WireUpdate(JNull, JList(<<JList(<<Text("status"), JNull>>)>>), JInt(7)),
    WireUpdate(JList(<<>>), JNull, JNull),
    JList(<<>>), JNull, JInt(3) }

UpdateArrays ==
  { JList(q) : q \in SeqsUpTo(UpdateElements, MaxEntries) } \cup { JNull, JInt(3), Text("x") }

UpdatesBodies ==
  Bodies({ JList(<<JList(<<Text("b.ListIssueUpdatesResponse"), rb>>)>>) :
             rb \in { JList(<<a, tok, n>>) : a \in UpdateArrays, tok \in PageTokens,
                                             n \in TotalCounts }
                    \cup { JNull, JList(<<>>) } }
         \cup BadEnvelopes)

(* records built with the dataclasses of models.py *)
Comment(issue_id, comment_number, timestamp, body) ==
  [t |-> "Comment",
   v |-> [issue_id |-> JInt(issue_id), comment_number |-> JInt(comment_number),
          author |-> JNull, timestamp |-> timestamp, body |-> body]]

IssueUpdate(issue_id, comment) ==
  [t |-> "IssueUpdate",
   v |-> [issue_id |-> JInt(issue_id), sequence_number |-> JNull, author |-> JNull,
          timestamp |-> JNull, comment |-> comment, field_changes |-> <<>>]]

IssueUpdatesResult(updates, total_count) ==
  [t |-> "IssueUpdatesResult",
   v |-> [updates |-> updates, total_count |-> JInt(total_count), next_page_token |-> JNull]]

ModelUpdates ==
  { IssueUpdate(1, JNull) }
  \cup { IssueUpdate(1, Comment(1, n, ts, Text("body")))
           : n \in 1..3, ts \in { JNull, Datetime(100, 0), Datetime(200, 500000000) } }

UpdatesResults ==
  { IssueUpdatesResult(q, Len(q)) : q \in SeqsUpTo(ModelUpdates, MaxUpdates) }

(* integer codes around and beyond the known members of the enums *)
EnumCodes == { JInt(n) : n \in (-2..12) \cup {99} }

(* a field entry of 10 slots: id 0, number 4, labels 5, enums 7, text 9 *)
FieldEntry(field_id, numeric_value, label_values, enum_values, display_string) ==
  JList(<<field_id>> \o Nulls(3) \o <<numeric_value, label_values, JNull, enum_values, JNull,
                                      display_string>>)

WireNumbers == { JNull, JInt(5), JFloat(2), Text("7") }

WireGroups ==
  { JNull,
    JList(<<JList(<<Text("a"), Text("b")>>), JList(<<Text("c")>>)>>),
    JList(<<JList(<<JInt(1)>>)>>),
    JList(<<>>) }

WireDisplays == { JNull, JStr(<<>>), Text("d") }

FieldEntriesOf(field_id) ==
  { FieldEntry(field_id, n, l, e, d) :
      n \in WireNumbers, l \in WireGroups, e \in WireGroups, d \in WireDisplays }
  \cup { JList(<<field_id>>), JList(<<field_id>> \o Nulls(3) \o <<JInt(5)>>) }

FieldEntryArrays ==
  { JList(<<e>>) : e \in FieldEntriesOf(JInt(1223084)) \cup FieldEntriesOf(JInt(77))
                        \cup FieldEntriesOf(JList(<<JInt(77)>>)) }
  \cup { JList(<<e1, e2>>) :
           e1 \in { FieldEntry(JInt(1223084), n, l, JNull, JNull) :
                      n \in {JNull, JInt(5)}, l \in WireGroups },
           e2 \in { FieldEntry(JInt(77), JNull, JNull, e, d) :
                      e \in WireGroups, d \in WireDisplays } \cup { JNull, JList(<<>>) } }
  \cup { JNull, JList(<<>>), JInt(3), Text("x") }

(* custom-field arrays whose entries name promoted fields, table fields    *)
(* without an attribute, and a field outside the table                     *)
PromotionFields ==
  { JList(<<e>>) :
      e \in { FieldEntry(JInt(1223084), JNull, JNull, JNull,
                         JStr(<<"Linux", ",", " ", "Mac", ",", " ">>)),
              FieldEntry(JInt(1223084), JNull, JList(<<JList(<<Text("Linux"), Text("Mac")>>)>>),
                         JNull, JNull),
              FieldEntry(JInt(1223084), JInt(5), JNull, JNull, JNull),
              FieldEntry(JInt(1223033), JNull, JList(<<JList(<<Text("a"), Text("b")>>)>>),
                         JNull, JNull),
              FieldEntry(JInt(1223033), JNull, JNull, JNull, Text("b1")),
              FieldEntry(JInt(1223033), JInt(5), JNull, JNull, JNull),
              FieldEntry(JInt(1410892), JInt(79), JNull, JNull, JNull),
              FieldEntry(JInt(1410892), JNull, JNull, JNull, JStr(<<"7", "9">>)),
              FieldEntry(JInt(1410892), JNull, JNull, JNull, Text("abc")),
              FieldEntry(JInt(1410892), JNull, JList(<<JList(<<Text("a")>>)>>), JNull, JNull),
              FieldEntry(JInt(1223032), JNull, JNull, JNull, Text("doc")),
              FieldEntry(JInt(1225362), JInt(3), JNull, JNull, JNull),
              FieldEntry(JInt(77), JNull, JNull, JNull, Text("d")) } }
  \cup { JList(<<FieldEntry(JInt(1223084), JNull, JNull, JNull, Text("Linux")),
                 FieldEntry(JInt(77), JInt(5), JNull, JNull, JNull),
                 FieldEntry(JInt(1223034), JNull, JNull, JNull, Text("r"))>>) }

PromotionEntries ==
  { Entry(JInt(5), Details(JInt(1), JInt(1), JInt(2), cf)) : cf \in PromotionFields }

(* what the count slots 9 and 11 may hold *)
WireCounts == { JNull, JInt(0), JInt(7), JBool(TRUE), JFloat(2), Text("x"), JList(<<JInt(1)>>) }

(* entries that differ in their star and comment slots, and entries cut    *)
(* before slot 9, before slot 11 and after it                              *)
CountEntries ==
  { EntryOf(JInt(5), Details(JInt(1), JInt(1), JInt(2), JNull), stars, comments, JNull) :
      stars \in WireCounts, comments \in WireCounts }
  \cup { JList(SubSeq(Entry(JInt(5), Details(JInt(1), JInt(1), JInt(2), JNull)).v, 1, n)) :
           n \in {9, 10, 11, 12} }

(* what a list of issue ids may be on the wire *)
WireIdLists ==
  { JNull, JList(<<>>), JList(<<JInt(10), JInt(20)>>), JList(<<JInt(30)>>),
    JList(<<JInt(10), Text("x"), JInt(20)>>) }

(* entries that differ in details slot 21 and in top-level slot 36 *)
BlockingEntries ==
  { EntryOf(JInt(5), DetailsOf(JInt(1), JInt(1), JInt(2), JNull, slot21),
            JInt(10), JInt(5), slot36) :
      slot21 \in WireIdLists, slot36 \in WireIdLists }

WireSequences == { JNull, JInt(0), JInt(4), JInt(-1), JFloat(2), Text("x") }

RawComments ==
  { WireComment(text, JList(<<JInt(100)>>), n) :
      text \in { JNull, JStr(<<>>), Text("hello") }, n \in WireSequences }
  \cup { JNull, JList(<<>>), JInt(3), Text("x"), JObj(<<>>), JList(<<Text("hello")>>),
         JList(<<JNull>>) }

CommentArgs == { [raw_comment |-> c, issue_id |-> JInt(i)] : c \in RawComments, i \in {0, 7} }

(* response texts: up to two prefixes, or pieces of one, before the rest *)
TextPieces ==
  { <<>>, ResponsePrefixes[1], ResponsePrefixes[2], ResponsePrefixes[3],
    <<")", "]", "}", "'">>, <<")">>, <<"\n">>, <<" ">>, <<"\\", "n">>, <<"\r">> }

ResponseTexts ==
  { [head |-> a \o b \o c, doc |-> d] :
      a \in TextPieces, b \in TextPieces, c \in TextPieces, d \in { JList(<<>>), JNull } }

(* records built with the SearchResult dataclass of models.py *)
SearchResult(issues, total_count, next_page_token, query, page_size) ==
  [t |-> "SearchResult",
   v |-> [issues |-> issues, total_count |-> total_count,
          next_page_token |-> next_page_token, query |-> query, page_size |-> page_size]]

Queries == { Text("status:open"), JStr(<<>>), JStr(<<" ">>) }

PageSizes == { JInt(25), JInt(50) }

SearchResults ==
  { SearchResult(<<>>, n, tok, q, ps) :
      n \in {JInt(0), JInt(42)}, tok \in PageTokens, q \in Queries, ps \in PageSizes }

PagedUpdatesResults ==
  { [IssueUpdatesResult(<<>>, n) EXCEPT !.v.next_page_token = tok] :
      n \in 0..1, tok \in PageTokens }

Responses ==
  { [kind |-> "transport_error", text |-> [head |-> <<>>, doc |-> JNull]],
    [kind |-> "status_error", text |-> [head |-> <<>>, doc |-> JNull]] }
  \cup { [kind |-> "ok", text |-> [head |-> ResponsePrefixes[1], doc |-> d]] :
           d \in { JList(<<JList(<<Text("b.IssueSearchResponse")>> \o Nulls(5)
                                 \o <<JList(<<JList(q), tok, JInt(42)>>)>>)>>) :
                     q \in SeqsUpTo({GoodEntry(1)}, 1), tok \in PageTokens }
                 \cup { JNull } }

TrackerIds == { JNull, JList(<<Text("157")>>) }

NextPageArgs ==
  { [tracker_ids |-> tr, result |-> r, response |-> rs] :
      tr \in TrackerIds, r \in SearchResults, rs \in Responses }

(* what arrives at _parse_timestamp: absent, not a list, lists of numbers  *)
(* in and out of the range of datetime, of time_t and of float             *)
RawTimestamps ==
  { JNull, JList(<<>>), JInt(3), JStr(<<"x">>), JObj(<<>>),
    JList(<<JStr(<<"x">>)>>), JList(<<JNull>>), JList(<<JList(<<JInt(1)>>)>>),
    JList(<<JInt(1700000000)>>), JList(<<JInt(1700000000), JInt(500000000)>>),
    JList(<<JInt(1700000000), JInt(1500000000)>>),
    JList(<<JBool(TRUE)>>), JList(<<JInt(0), JInt(-1)>>),
    JList(<<JInt(1), JStr(<<"x">>)>>), JList(<<JInt(1), JInt(2), JInt(3)>>),
    JList(<<Big("int", 1, <<2, 5, 3, 4, 0, 2, 3, 0, 0, 7, 9, 9>>, 0)>>),
    JList(<<Big("int", 1, <<2, 5, 3, 4, 0, 2, 3, 0, 0, 8>>, 2)>>),
    JList(<<Big("int", -1, <<6, 2, 1, 3, 5, 5, 9, 6, 8, 0, 1>>, 0)>>),
    JList(<<Big("float", 1, <<1>>, 15)>>), JList(<<Big("float", 1, <<1>>, 18)>>),
    JList(<<Big("float", 1, <<1>>, 19)>>), JList(<<Big("float", -1, <<1>>, 30)>>),
    JList(<<Big("int", 1, <<9, 2, 2, 3, 3, 7, 2, 0, 3, 6, 8, 5, 4, 7, 7, 5, 8, 0, 7>>, 0)>>),
    JList(<<Big("int", 1, <<1>>, 400)>>),
    JList(<<Special(1, "inf")>>), JList(<<Special(-1, "inf")>>),
    JList(<<Special(1, "nan")>>),
    JList(<<JInt(0), Special(1, "inf")>>), JList(<<JInt(0), Big("float", 1, <<1>>, 30)>>),
    JList(<<JInt(0), Big("int", 1, <<1>>, 400)>>),
    JList(<<JStr(<<"x">>), Big("int", 1, <<1>>, 400)>>),
    JList(<<JInt(0), Big("int", 1, <<2, 5>>, 9)>>) }

(* the elements of a user-reference array: null, a type tag, a nested     *)
(* list, the empty string, an address, a name                              *)
UserItems ==
  { JNull, JInt(1), JList(<<JStr(<<"n", "@", "x">>)>>), JStr(<<>>),
    JStr(<<"a", "@", "x">>), JStr(<<"b">>) }

MaxUserItems == 3

UserArrays ==
  { JNull, JInt(42), JStr(<<"a", "@", "x">>), JObj(<<>>) }
  \cup { JList(items) : items \in UNION { [1..n -> UserItems] : n \in 0..MaxUserItems } }

(* the elements of an id list on the wire *)
IdItems ==
  { JInt(1), JInt(2), JBool(TRUE), JBool(FALSE), JFloat(2), JStr(<<"3">>), JNull,
    JList(<<JInt(4)>>) }

MaxIdItems == 3

IdLists ==
  { JNull, JInt(3), JStr(<<"1", "2">>), JObj(<<>>) }
  \cup { JList(items) : items \in UNION { [1..n -> IdItems] : n \in 0..MaxIdItems } }

(* ---------------- parser.py: the decoders called in turn ---------------- *)

(* the five public decoders, by name *)
Decode(call) ==
  CASE call.fn = "parse_issue_from_entry" -> parse_issue_from_entry(call.input)
    [] call.fn = "parse_search_response" ->
         parse_search_response(call.input.raw_text, call.input.query, call.input.page_size)
    [] call.fn = "parse_issue_detail_response" -> parse_issue_detail_response(call.input)
    [] call.fn = "parse_batch_response" -> parse_batch_response(call.input)
    [] call.fn = "parse_updates_response" -> parse_updates_response(call.input)

(* calls made one after the other; run holds, for every call made, the     *)
(* argument object as the call left it and the outcome, and the module     *)
(* level table the decoders read. No statement of the decoders assigns     *)
(* into an argument or into a module level name: custom_fields, the only   *)
(* object that is popped from, is built by the call itself.                *)
RECURSIVE RunDecoders(_, _)
RunDecoders(calls, run) ==
  IF calls = <<>> THEN run
  ELSE RunDecoders(Tail(calls),
                   [ inputs |-> Append(run.inputs, Head(calls).input),
                     table |-> run.table,
                     outcomes |-> Append(run.outcomes, Decode(Head(calls))) ])

decoder_calls(calls) ==
  RunDecoders(calls, [inputs |-> <<>>, table |-> CUSTOM_FIELD_IDS, outcomes |-> <<>>])

MaxCalls == 3

Unprefixed(doc) == [head |-> <<>>, doc |-> doc]

DecoderCalls ==
  { [fn |-> "parse_issue_from_entry", input |-> GoodEntry(1)],
    [fn |-> "parse_issue_from_entry", input |-> GoodEntry(2)],
    [fn |-> "parse_search_response",
     input |-> [raw_text |-> Unprefixed(JList(<<JList(<<Text("b.IssueSearchResponse")>>
                                 \o Nulls(5)
                                 \o <<JList(<<JList(<<GoodEntry(1)>>), JNull, JInt(1)>>)>>)>>)),
                query |-> Text("status:open"), page_size |-> JInt(50)]],
    [fn |-> "parse_issue_detail_response",
     input |-> Unprefixed(JList(<<JList(<<Text("b.IssueFetchResponse"),
                                          JList(<<GoodEntry(1)>>)>>)>>))],
    [fn |-> "parse_batch_response",
     input |-> Unprefixed(JList(<<JList(<<Text("b.BatchGetIssuesResponse"), JNull,
                                          JList(<<JList(<<GoodEntry(1)>>)>>)>>)>>))],
    [fn |-> "parse_batch_response",
     input |-> Unprefixed(JList(<<JList(<<Text("b.BatchGetIssuesResponse"), JNull,
                                          JList(<<>>)>>)>>))],
    [fn |-> "parse_updates_response",
     input |-> Unprefixed(JList(<<JList(<<Text("b.ListIssueUpdatesResponse"),
                 JList(<<JList(<<WireUpdate(JNull, JNull, JInt(7))>>), JNull, JInt(1)>>)>>)>>))] }

CallSequences == UNION { [1..n -> DecoderCalls] : n \in 1..MaxCalls }

(* a page of search results on the wire *)
WirePage(entries, token) ==
  [kind |-> "ok",
   text |-> [head |-> ResponsePrefixes[1],
             doc |-> JList(<<JList(<<Text("b.IssueSearchResponse")>> \o Nulls(5)
                                   \o <<JList(<<JList(entries), token, JInt(42)>>)>>)>>)]]

WirePages ==
  { WirePage(entries, token) :
      entries \in { <<>>, <<GoodEntry(1)>>, <<GoodEntry(1), GoodEntry(2)>> },
      token \in { JNull, Text("next_token_abc") } }
  \cup { [kind |-> "status_error", text |-> [head |-> <<>>, doc |-> JNull]] }

MaxPages == 3

Limits == { JNull, JInt(-1), JInt(0), JInt(1), JInt(2), JInt(3), JInt(5) }

CmdSearchArgs ==
  { [tracker_ids |-> JNull, query |-> q, per_page |-> JInt(50), limit |-> l, responses |-> rs] :
      q \in { Text("status:open") }, l \in Limits,
      rs \in UNION { [1..n -> WirePages] : n \in 1..MaxPages } }

(* ------------------------------ actions --------------------------------- *)

Init ==
  /\ pc = "call"
  /\ ret = Return(JNull)
  /\ \/ op = "_safe_get" /\ arg \in SafeGetArgs
     \/ op = "parse_issue_from_entry"
        /\ arg \in IssueEntries \cup PromotionEntries \cup CountEntries \cup BlockingEntries
     \/ op = "parse_search_response" /\ arg \in SearchArgs
     \/ op = "parse_issue_detail_response" /\ arg \in DetailBodies
     \/ op = "parse_batch_response" /\ arg \in BatchBodies
     \/ op = "parse_updates_response" /\ arg \in UpdatesBodies
     \/ op = "IssueUpdatesResult.comments" /\ arg \in UpdatesResults
     \/ op = "Status" /\ arg \in EnumCodes
     \/ op = "Priority" /\ arg \in EnumCodes
     \/ op = "IssueType" /\ arg \in EnumCodes
     \/ op = "_parse_custom_field_values" /\ arg \in FieldEntryArrays
     \/ op = "_parse_comment" /\ arg \in CommentArgs
     \/ op = "strip_response_prefix" /\ arg \in ResponseTexts
     \/ op = "SearchResult.has_more" /\ arg \in SearchResults
     \/ op = "IssueUpdatesResult.has_more" /\ arg \in PagedUpdatesResults
     \/ op = "next_page" /\ arg \in NextPageArgs
     \/ op = "_parse_timestamp" /\ arg \in RawTimestamps
     \/ op = "_parse_email" /\ arg \in UserArrays
     \/ op = "_parse_int_list" /\ arg \in IdLists
     \/ op = "decoder_calls" /\ arg \in CallSequences
     \/ op = "cmd_search" /\ arg \in CmdSearchArgs

Call_safe_get ==
  /\ pc = "call"
  /\ op = "_safe_get"
  /\ ret' = _safe_get(arg.array, arg.indices, arg.default)
  /\ pc' = "done"
  /\ UNCHANGED <<op, arg>>

Call_parse_issue_from_entry ==
  /\ pc = "call"
  /\ op = "parse_issue_from_entry"
  /\ ret' = parse_issue_from_entry(arg)
  /\ pc' = "done"
  /\ UNCHANGED <<op, arg>>

Call_parse_search_response ==
  /\ pc = "call"
  /\ op = "parse_search_response"
  /\ ret' = parse_search_response(arg.raw_text, arg.query, arg.page_size)
  /\ pc' = "done"
  /\ UNCHANGED <<op, arg>>

Call_parse_issue_detail_response ==
  /\ pc = "call"
  /\ op = "parse_issue_detail_response"
  /\ ret' = parse_issue_detail_response(arg)
  /\ pc' = "done"
  /\ UNCHANGED <<op, arg>>

Call_parse_batch_response ==
  /\ pc = "call"
  /\ op = "parse_batch_response"
  /\ ret' = parse_batch_response(arg)
  /\ pc' = "done"
  /\ UNCHANGED <<op, arg>>

Call_parse_updates_response ==
  /\ pc = "call"
  /\ op = "parse_updates_response"
  /\ ret' = parse_updates_response(arg)
  /\ pc' = "done"
  /\ UNCHANGED <<op, arg>>

Get_comments ==
  /\ pc = "call"
  /\ op = "IssueUpdatesResult.comments"
  /\ ret' = Return(IssueUpdatesResult_comments(arg))
  /\ pc' = "done"
  /\ UNCHANGED <<op, arg>>

Call_Status ==
  /\ pc = "call"
  /\ op = "Status"
  /\ ret' = Status(arg)
  /\ pc' = "done"
  /\ UNCHANGED <<op, arg>>

Call_Priority ==
  /\ pc = "call"
  /\ op = "Priority"
  /\ ret' = Priority(arg)
  /\ pc' = "done"
  /\ UNCHANGED <<op, arg>>

Call_IssueType ==
  /\ pc = "call"
  /\ op = "IssueType"
  /\ ret' = IssueType(arg)
  /\ pc' = "done"
  /\ UNCHANGED <<op, arg>>

Call_parse_custom_field_values ==
  /\ pc = "call"
  /\ op = "_parse_custom_field_values"
  /\ ret' = _parse_custom_field_values(arg)
  /\ pc' = "done"
  /\ UNCHANGED <<op, arg>>

Call_parse_comment ==
  /\ pc = "call"
  /\ op = "_parse_comment"
  /\ ret' = _parse_comment(arg.raw_comment, arg.issue_id)
  /\ pc' = "done"
  /\ UNCHANGED <<op, arg>>

Call_strip_response_prefix ==
  /\ pc = "call"
  /\ op = "strip_response_prefix"
  /\ ret' = Return(strip_response_prefix(arg))
  /\ pc' = "done"
  /\ UNCHANGED <<op, arg>>

Get_SearchResult_has_more ==
  /\ pc = "call"
  /\ op = "SearchResult.has_more"
  /\ ret' = Return(JBool(SearchResult_has_more(arg)))
  /\ pc' = "done"
  /\ UNCHANGED <<op, arg>>

Get_IssueUpdatesResult_has_more ==
  /\ pc = "call"
  /\ op = "IssueUpdatesResult.has_more"
  /\ ret' = Return(JBool(IssueUpdatesResult_has_more(arg)))
  /\ pc' = "done"
  /\ UNCHANGED <<op, arg>>

Call_next_page ==
  /\ pc = "call"
  /\ op = "next_page"
  /\ ret' = next_page(arg.tracker_ids, arg.result, arg.response)
  /\ pc' = "done"
  /\ UNCHANGED <<op, arg>>

Call_parse_timestamp ==
  /\ pc = "call"
  /\ op = "_parse_timestamp"
  /\ ret' = _parse_timestamp(arg)
  /\ pc' = "done"
  /\ UNCHANGED <<op, arg>>

Call_parse_email ==
  /\ pc = "call"
  /\ op = "_parse_email"
  /\ ret' = Return(_parse_email(arg))
  /\ pc' = "done"
  /\ UNCHANGED <<op, arg>>

Call_parse_int_list ==
  /\ pc = "call"
  /\ op = "_parse_int_list"
  /\ ret' = Return(_parse_int_list(arg))
  /\ pc' = "done"
  /\ UNCHANGED <<op, arg>>

Run_decoder_calls ==
  /\ pc = "call"
  /\ op = "decoder_calls"
  /\ ret' = Return(decoder_calls(arg))
  /\ pc' = "done"
  /\ UNCHANGED <<op, arg>>

Run_cmd_search ==
  /\ pc = "call"
  /\ op = "cmd_search"
  /\ ret' = cmd_search(arg.tracker_ids, arg.query, arg.per_page, arg.limit, arg.responses)
  /\ pc' = "done"
  /\ UNCHANGED <<op, arg>>

Next ==
  \/ Call_safe_get
  \/ Call_parse_issue_from_entry
  \/ Call_parse_search_response
  \/ Call_parse_issue_detail_response
  \/ Call_parse_batch_response
  \/ Call_parse_updates_response
  \/ Get_comments
  \/ Call_Status
  \/ Call_Priority
  \/ Call_IssueType
  \/ Call_parse_custom_field_values
  \/ Call_parse_comment
  \/ Call_strip_response_prefix
  \/ Get_SearchResult_has_more
  \/ Get_IssueUpdatesResult_has_more
  \/ Call_next_page
  \/ Call_parse_timestamp
  \/ Call_parse_email
  \/ Call_parse_int_list
  \/ Run_decoder_calls
  \/ Run_cmd_search

Spec == Init /\ [][Next]_vars

(* ------------------------------ claims ---------------------------------- *)

Done(name) == pc = "done" /\ op = name

(* slot i of a wire array, null when the array has no such slot *)
Slot(x, i) == IF x.t = "list" /\ Len(x.v) > i THEN x.v[i + 1] ELSE JNull

(* the response text is JSON once a known prefix is removed *)
JsonOk(raw_text) ==
  raw_text.head = <<>> \/ \E k \in 1..Len(ResponsePrefixes) : raw_text.head = ResponsePrefixes[k]

IsWireInt(x) == x.t = "int"

(* the elements of a wire array that satisfy Test, in wire order *)
Matching(array, Test(_)) == SelectSeq(array.v, Test)

IsListShaped(x) == x.t = "list"

IsListWithIntId(x) == x.t = "list" /\ IsWireInt(Slot(x, 1))

(* C1: parse_issue_from_entry returns an Issue and does not raise for      *)
(* every issue entry that is a JSON array, whatever its slots hold.        *)
C1_NeverRaises ==
  Done("parse_issue_from_entry") /\ arg.t = "list" =>
    ~Raised(ret) /\ ret.val.t = "Issue"

(* what a chain of subscriptions reaches, stated from Python's indexing    *)
(* rules: a list or a string of length n accepts the indices -n .. n-1     *)
C2_Accepts(x, i) == x.t \in {"list", "str"} /\ i >= -Len(x.v) /\ i < Len(x.v)

C2_Element(x, i) ==
  LET k == IF i >= 0 THEN i + 1 ELSE Len(x.v) + i + 1 IN
  IF x.t = "str" THEN JStr(<<x.v[k]>>) ELSE x.v[k]

RECURSIVE C2_Reached(_, _, _)
C2_Reached(x, ix, d) ==
  IF ix = <<>> THEN x
  ELSE IF C2_Accepts(x, Head(ix)) THEN C2_Reached(C2_Element(x, Head(ix)), Tail(ix), d)
  ELSE d

RECURSIVE C2_AllAccepted(_, _)
C2_AllAccepted(x, ix) ==
  \/ ix = <<>>
  \/ C2_Accepts(x, Head(ix)) /\ C2_AllAccepted(C2_Element(x, Head(ix)), Tail(ix))

(* C2: _safe_get never raises; it returns the value reached by applying    *)
(* the indices in order when every lookup succeeds (also when that value   *)
(* is null) and the default as soon as one lookup fails.                   *)
C2_SafeGetTotal ==
  Done("_safe_get") =>
    /\ ~Raised(ret)
    /\ ret.val = C2_Reached(arg.array, arg.indices, arg.default)

(* a chain of two or more successful lookups that ends on null, with a     *)
(* default that is not null                                                *)
C2_Witness ==
  /\ Done("_safe_get")
  /\ Len(arg.indices) >= 2
  /\ C2_AllAccepted(arg.array, arg.indices)
  /\ arg.default # JNull
  /\ ret = Return(JNull)

(* C3: parse_issue_detail_response decodes the matching element of        *)
(* highest index of the payload at [0][1], and raises ValueError exactly   *)
(* when the payload is not a list or holds no list with an integer in      *)
(* slot 1.                                                                 *)
C3_Payload == Slot(Slot(arg.doc, 0), 1)

C3_HasMatch == C3_Payload.t = "list" /\ \E i \in 1..Len(C3_Payload.v) : IsListWithIntId(C3_Payload.v[i])

C3_LastMatch ==
  C3_Payload.v[CHOOSE i \in 1..Len(C3_Payload.v) :
                 /\ IsListWithIntId(C3_Payload.v[i])
                 /\ \A j \in (i + 1)..Len(C3_Payload.v) : ~IsListWithIntId(C3_Payload.v[j])]

C3_DetailDecodesLastMatch ==
  Done("parse_issue_detail_response") /\ JsonOk(arg) =>
    IF C3_HasMatch
      THEN ~Raised(ret) /\ ret.val.t = "Issue" /\ ret.val.v.id = Slot(C3_LastMatch, 1)
      ELSE ret.raised = "ValueError"

(* C4: parse_search_response returns a SearchResult whose issues are the   *)
(* decodings, in wire order, of exactly the list-shaped elements of the    *)
(* array at [0][6][0], and whose total_count is the value at [0][6][2], or *)
(* 0 when that value is missing or null.                                   *)
C4_Block == Slot(Slot(arg.raw_text.doc, 0), 6)

C4_Entries == Matching(Slot(C4_Block, 0), IsListShaped)

C4_SearchResult ==
  Done("parse_search_response") /\ JsonOk(arg.raw_text) /\ Slot(C4_Block, 0).t = "list" =>
    /\ ~Raised(ret)
    /\ ret.val.t = "SearchResult"
    /\ Len(ret.val.v.issues) = Len(C4_Entries)
    /\ \A i \in 1..Len(C4_Entries) : ret.val.v.issues[i].v.id = Slot(C4_Entries[i], 1)
    /\ ret.val.v.total_count =
         (IF Slot(C4_Block, 2) = JNull THEN JInt(0) ELSE Slot(C4_Block, 2))

(* C5: parse_batch_response returns, in wire order, one Issue for each     *)
(* element of the array at [0][2][0] that is a list with an integer in     *)
(* slot 1, skips every other element without raising, and gives the empty  *)
(* list for an empty, null or missing array.                               *)
C5_Array == Slot(Slot(Slot(arg.doc, 0), 2), 0)

C5_Entries == IF C5_Array.t = "list" THEN Matching(C5_Array, IsListWithIntId) ELSE <<>>

C5_BatchDecodesMatching ==
  Done("parse_batch_response") /\ JsonOk(arg) /\ C5_Array.t \in {"list", "null"} =>
    /\ ~Raised(ret)
    /\ Len(ret.val) = Len(C5_Entries)
    /\ \A i \in 1..Len(C5_Entries) : ret.val[i].v.id = Slot(C5_Entries[i], 1)

(* C6: parse_updates_response produces exactly one IssueUpdate per         *)
(* list-shaped update entry, in wire order; an update carries a comment    *)
(* only when slot 2 of its entry is present and non-empty, and always      *)
(* carries a field_changes list.                                           *)
C6_Array == Slot(Slot(Slot(arg.doc, 0), 1), 0)

C6_Entries == Matching(C6_Array, IsListShaped)

C6_OneUpdatePerEntry ==
  Done("parse_updates_response") /\ JsonOk(arg) /\ C6_Array.t = "list" =>
    /\ ~Raised(ret)
    /\ ret.val.t = "IssueUpdatesResult"
    /\ Len(ret.val.v.updates) = Len(C6_Entries)
    /\ \A i \in 1..Len(C6_Entries) :
         /\ (ret.val.v.updates[i].v.comment.t # "null") <=> Truthy(Slot(C6_Entries[i], 2))
         /\ ret.val.v.updates[i].v.issue_id = PyOr(Slot(C6_Entries[i], 9), JInt(0))

(* C7: IssueUpdatesResult.comments is the reverse of the subsequence of    *)
(* updates that carry a comment: the k-th comment of the result is the     *)
(* comment of the comment-bearing update that has exactly k - 1            *)
(* comment-bearing updates after it.                                       *)
C7_Bearing == { i \in 1..Len(arg.v.updates) : arg.v.updates[i].v.comment.t = "Comment" }

C7_CommentsReversed ==
  Done("IssueUpdatesResult.comments") =>
    /\ ~Raised(ret)
    /\ Len(ret.val) = Cardinality(C7_Bearing)
    /\ \A i \in C7_Bearing :
         ret.val[Cardinality({ j \in C7_Bearing : j > i }) + 1] = arg.v.updates[i].v.comment

(* updates [newer, no comment, older] whose two comments differ *)
C7_Witness ==
  /\ Done("IssueUpdatesResult.comments")
  /\ Len(arg.v.updates) = 3
  /\ C7_Bearing = {1, 3}
  /\ arg.v.updates[1].v.comment # arg.v.updates[3].v.comment
  /\ ret.val = <<arg.v.updates[3].v.comment, arg.v.updates[1].v.comment>>

(* C8: for every IssueUpdatesResult produced by parse_updates_response,    *)
(* two consecutive comments of .comments that both have a timestamp are in *)
(* non-decreasing timestamp order. Stated for a response whose updates are *)
(* newest-first and carry two timestamped comments.                        *)
Before(d1, d2) == d1.v[1] < d2.v[1] \/ (d1.v[1] = d2.v[1] /\ d1.v[2] <= d2.v[2])

Chronological(comments) ==
  \A k \in 1..(Len(comments) - 1) :
    comments[k].v.timestamp.t = "datetime" /\ comments[k + 1].v.timestamp.t = "datetime"
      => Before(comments[k].v.timestamp, comments[k + 1].v.timestamp)

C8_WireSeconds(entry) == Slot(Slot(Slot(entry, 2), 3), 0)

C8_NewestFirstPair ==
  /\ C6_Array.t = "list" /\ Len(C6_Array.v) = 2
  /\ \A i \in 1..2 : IsWireInt(C8_WireSeconds(C6_Array.v[i]))
  /\ C8_WireSeconds(C6_Array.v[1]).v >= C8_WireSeconds(C6_Array.v[2]).v

C8_CommentsChronological ==
  Done("parse_updates_response") /\ JsonOk(arg) /\ C8_NewestFirstPair =>
    /\ ~Raised(ret)
    /\ Len(IssueUpdatesResult_comments(ret.val)) = 2
    /\ Chronological(IssueUpdatesResult_comments(ret.val))

(* C9: an integer wire priority w at details slot 3 decodes to the         *)
(* priority of raw value w - 1; a missing or non-integer wire value gives  *)
(* P2.                                                                     *)
C9_WirePriority == Slot(Slot(arg, 2), 3)

C9_PriorityReindexed ==
  Done("parse_issue_from_entry") /\ arg.t = "list" =>
    /\ ~Raised(ret)
    /\ ret.val.t = "Issue"
    /\ ret.val.v.priority.value =
         (IF IsWireInt(C9_WirePriority) THEN JInt(C9_WirePriority.v - 1) ELSE JInt(2))

(* C10: for every integer status code n at details slot 2 and issue-type   *)
(* code m at details slot 1, parse_issue_from_entry does not raise and the *)
(* Issue has a status of raw value n and an issue_type of raw value m.     *)
C10_WireStatus == Slot(Slot(arg, 2), 2)

C10_WireType == Slot(Slot(arg, 2), 1)

C10_CodesPreserved ==
  Done("parse_issue_from_entry") /\ IsWireInt(C10_WireStatus) /\ IsWireInt(C10_WireType) =>
    /\ ~Raised(ret)
    /\ ret.val.t = "Issue"
    /\ ret.val.v.status.value = C10_WireStatus
    /\ ret.val.v.issue_type.t = "member"
    /\ ret.val.v.issue_type.value = C10_WireType

(* C11: for every integer code, Status(code), Priority(code) and           *)
(* IssueType(code) return without raising; the result has the code as its  *)
(* raw value; its name is the known member's name when the code is one of  *)
(* the known set, and UNKNOWN_<code>, P<code> or TYPE_<code> otherwise;    *)
(* constructing again from the raw value of the result gives an equal      *)
(* value.                                                                  *)
C11_Members == [Status |-> StatusMembers, Priority |-> PriorityMembers,
                IssueType |-> IssueTypeMembers]

C11_Prefix == [Status |-> "UNKNOWN_", Priority |-> "P", IssueType |-> "TYPE_"]

C11_Again(value) ==
  CASE op = "Status" -> Status(value)
    [] op = "Priority" -> Priority(value)
    [] OTHER -> IssueType(value)

C11_EnumDecodeLossless ==
  (pc = "done" /\ op \in {"Status", "Priority", "IssueType"}) =>
    /\ ~Raised(ret)
    /\ ret.val.value = arg
    /\ ret.val.name = (IF arg.v \in DOMAIN C11_Members[op]
                         THEN <<C11_Members[op][arg.v]>>
                         ELSE <<C11_Prefix[op]>> \o IntDigits(arg.v))
    /\ C11_Again(ret.val.value) = ret

C11_Witness ==
  /\ Done("Status") /\ arg = JInt(99)
  /\ ret = Return([t |-> "member", name |-> <<"UNKNOWN_", "9", "9">>, value |-> JInt(99)])

(* C12: _parse_custom_field_values classifies every list-shaped field      *)
(* entry by the first match of: a number at slot 4; a label slot 5 that is *)
(* a list of lists of strings, flattened in order; an enum slot 7 of the   *)
(* same shape, flattened the same way; a non-empty display string at slot  *)
(* 9; an entry matching none adds no key. The key is the table's name for  *)
(* the id at slot 0, or field_<id> when the table has no such id.          *)
C12_IsNumber(x) == x.t \in {"int", "float"}

(* a non-empty list of lists of strings holding at least one string *)
C12_IsGroups(x) ==
  /\ x.t = "list" /\ Len(x.v) > 0
  /\ \A i \in 1..Len(x.v) :
       x.v[i].t = "list" /\ \A j \in 1..Len(x.v[i].v) : x.v[i].v[j].t = "str"
  /\ \E i \in 1..Len(x.v) : Len(x.v[i].v) > 0

RECURSIVE C12_Concat(_)
C12_Concat(groups) ==
  IF groups = <<>> THEN <<>> ELSE Head(groups).v \o C12_Concat(Tail(groups))

C12_Key(field_id) ==
  IF field_id.t = "int" /\ field_id.v \in DOMAIN CUSTOM_FIELD_IDS
    THEN <<CUSTOM_FIELD_IDS[field_id.v]>>
    ELSE <<"field_">> \o PyStr(field_id)

(* what the entry adds under its key: a value, or nothing *)
C12_Classified(entry) ==
  CASE C12_IsNumber(Slot(entry, 4)) -> <<Slot(entry, 4)>>
    [] ~C12_IsNumber(Slot(entry, 4)) /\ C12_IsGroups(Slot(entry, 5)) ->
         <<JList(C12_Concat(Slot(entry, 5).v))>>
    [] ~C12_IsNumber(Slot(entry, 4)) /\ ~C12_IsGroups(Slot(entry, 5))
       /\ C12_IsGroups(Slot(entry, 7)) ->
         <<JList(C12_Concat(Slot(entry, 7).v))>>
    [] OTHER ->
         IF Slot(entry, 9).t = "str" /\ Slot(entry, 9).v # <<>>
           THEN <<Slot(entry, 9)>> ELSE <<>>

C12_EntryClassified(entry) ==
  /\ ~Raised(ret)
  /\ IF C12_Classified(entry) = <<>>
       THEN ~DictHas(ret.val, C12_Key(entry.v[1]))
       ELSE /\ DictHas(ret.val, C12_Key(entry.v[1]))
            /\ DictGet(ret.val, C12_Key(entry.v[1])) = C12_Classified(entry)[1]

C12_ClassificationOrder ==
  (Done("_parse_custom_field_values") /\ arg.t = "list") =>
    \A i \in 1..Len(arg.v) :
      (arg.v[i].t = "list" /\ Len(arg.v[i].v) > 0) => C12_EntryClassified(arg.v[i])

(* the custom-field array of an issue entry: slot 14 of its details *)
WireFieldEntries(entry) == Slot(Slot(entry, 2), 14)

(* C13: after parse_issue_from_entry, no custom-field name that is         *)
(* promoted to a named Issue attribute is a key of custom_fields.          *)
C13_PromotedNames ==
  { "component_tags", "component_ancestor_tags", "chromium_labels", "os", "milestone",
    "merge", "merge_request", "release_block", "cve", "cwe_id", "vrp_reward",
    "estimated_days", "build_number", "flaky_test", "next_action", "notice",
    "introduced_in", "irm_link", "security_release", "fixed_by_code_changes" }

C13_PromotedNotDuplicated ==
  (Done("parse_issue_from_entry") /\ arg \in PromotionEntries) =>
    /\ ~Raised(ret)
    /\ \A name \in C13_PromotedNames : ~DictHas(ret.val.v.custom_fields, <<name>>)

(* C14: after parse_issue_from_entry, no name of the field-ID table is a   *)
(* key of custom_fields, and custom_fields holds exactly the classified    *)
(* values of the field entries whose id is not in the table, each under    *)
(* its field_<id> key.                                                     *)
C14_TableNames == { CUSTOM_FIELD_IDS[id] : id \in DOMAIN CUSTOM_FIELD_IDS }

C14_Outside(entry) ==
  /\ entry.t = "list" /\ Len(entry.v) > 0
  /\ entry.v[1].v \notin DOMAIN CUSTOM_FIELD_IDS
  /\ C12_Classified(entry) # <<>>

C14_OnlyUnknownFieldsRemain ==
  (Done("parse_issue_from_entry") /\ arg \in PromotionEntries) =>
    /\ ~Raised(ret)
    /\ \A name \in C14_TableNames : ~DictHas(ret.val.v.custom_fields, <<name>>)
    /\ \A i \in 1..Len(WireFieldEntries(arg).v) :
         C14_Outside(WireFieldEntries(arg).v[i]) =>
           /\ DictHas(ret.val.v.custom_fields, C12_Key(WireFieldEntries(arg).v[i].v[1]))
           /\ DictGet(ret.val.v.custom_fields, C12_Key(WireFieldEntries(arg).v[i].v[1]))
                = C12_Classified(WireFieldEntries(arg).v[i])[1]
    /\ \A k \in 1..Len(ret.val.v.custom_fields) :
         \E i \in 1..Len(WireFieldEntries(arg).v) :
           /\ C14_Outside(WireFieldEntries(arg).v[i])
           /\ ret.val.v.custom_fields[k].key = C12_Key(WireFieldEntries(arg).v[i].v[1])

(* C15: a promoted list-of-strings attribute takes a decoded list as is    *)
(* and a decoded string split at commas, parts trimmed, empty parts        *)
(* dropped; a single-string attribute takes a decoded string as is and a   *)
(* decoded list joined with ", "; a numeric attribute takes the decoded    *)
(* value as a number and is absent when the coercion fails; a field with   *)
(* no entry gives the empty list, or absent.                               *)
C15_Only(field_id, numeric_value, label_values, display_string) ==
  WireFieldEntries(arg)
    = JList(<<FieldEntry(JInt(field_id), numeric_value, label_values, JNull, display_string)>>)

C15_Labels(strings) == JList(<<JList(strings)>>)

C15_Coerced ==
  /\ C15_Only(1223084, JNull, JNull, JStr(<<"Linux", ",", " ", "Mac", ",", " ">>))
       => ret.val.v.os = JList(<<Text("Linux"), Text("Mac")>>)
  /\ C15_Only(1223084, JNull, C15_Labels(<<Text("Linux"), Text("Mac")>>), JNull)
       => ret.val.v.os = JList(<<Text("Linux"), Text("Mac")>>)
  /\ C15_Only(1223033, JNull, C15_Labels(<<Text("a"), Text("b")>>), JNull)
       => ret.val.v.build_number = JStr(<<"a", ",", " ", "b">>)
  /\ C15_Only(1223033, JNull, JNull, Text("b1")) => ret.val.v.build_number = Text("b1")
  /\ C15_Only(1410892, JInt(79), JNull, JNull) => ret.val.v.cwe_id = JFloat(79)
  /\ C15_Only(1410892, JNull, JNull, JStr(<<"7", "9">>)) => ret.val.v.cwe_id = JFloat(79)
  /\ C15_Only(1410892, JNull, JNull, Text("abc")) => ret.val.v.cwe_id = JNull
  /\ C15_Only(1410892, JNull, C15_Labels(<<Text("a")>>), JNull) => ret.val.v.cwe_id = JNull
  /\ C15_Only(77, JNull, JNull, Text("d"))
       => /\ ret.val.v.os = JList(<<>>)
          /\ ret.val.v.build_number = JNull
          /\ ret.val.v.cwe_id = JNull

C15_PromotionCoerces ==
  (Done("parse_issue_from_entry") /\ arg \in PromotionEntries) =>
    (~Raised(ret) /\ C15_Coerced)

(* C16: the result of parse_search_response and of parse_updates_response  *)
(* has next_page_token absent when the wire token is missing, null or the  *)
(* empty string and equal to the wire token otherwise; has_more is true    *)
(* exactly when next_page_token is not absent.                             *)
C16_UpdatesBlock == Slot(Slot(arg.doc, 0), 1)

C16_Token(wire_token) ==
  IF wire_token = JNull \/ wire_token = JStr(<<>>) THEN JNull ELSE wire_token

C16_HasMore(result) == JBool(result.v.next_page_token # JNull)

C16_TokenAndHasMore ==
  /\ (Done("parse_search_response") /\ JsonOk(arg.raw_text) /\ Slot(C4_Block, 0).t = "list") =>
       /\ ~Raised(ret)
       /\ ret.val.v.next_page_token = C16_Token(Slot(C4_Block, 1))
       /\ SearchResult_has_more(ret.val) <=> (ret.val.v.next_page_token # JNull)
  /\ (Done("parse_updates_response") /\ JsonOk(arg) /\ Slot(C16_UpdatesBlock, 0).t = "list") =>
       /\ ~Raised(ret)
       /\ ret.val.v.next_page_token = C16_Token(Slot(C16_UpdatesBlock, 1))
       /\ IssueUpdatesResult_has_more(ret.val) <=> (ret.val.v.next_page_token # JNull)
  /\ Done("SearchResult.has_more") => ret = Return(C16_HasMore(arg))
  /\ Done("IssueUpdatesResult.has_more") => ret = Return(C16_HasMore(arg))

(* C17: a SearchResult carries the query and page_size passed to the       *)
(* decode that produced it; next_page(result) returns None without any     *)
(* request when result.has_more is false, and otherwise makes exactly one  *)
(* search with the query, page_size and next_page_token of the result.     *)
C17_ResumableSearch ==
  /\ (Done("parse_search_response") /\ JsonOk(arg.raw_text) /\ Slot(C4_Block, 0).t = "list") =>
       /\ ~Raised(ret)
       /\ ret.val.v.query = arg.query
       /\ ret.val.v.page_size = arg.page_size
  /\ (Done("next_page") /\ arg.result.v.next_page_token = JNull) =>
       /\ ret.raised = "" /\ ret.val = JNull
       /\ ret.posts = <<>> /\ ret.searches = <<>>
  /\ (Done("next_page") /\ arg.result.v.next_page_token # JNull) =>
       ret.searches = <<[query |-> arg.result.v.query, page_size |-> arg.result.v.page_size,
                         page_token |-> arg.result.v.next_page_token]>>

(* C18: _parse_comment gives comment_number n + 1 for a raw sequence       *)
(* number n at slot 6 that is an integer, and 1 when slot 6 is missing or  *)
(* null; so a non-negative sequence number gives comment_number >= 1.      *)
C18_Sequence == Slot(arg.raw_comment, 6)

C18_CommentNumbered ==
  (/\ Done("_parse_comment")
   /\ arg.raw_comment.t = "list" /\ Len(arg.raw_comment.v) > 0
   /\ C18_Sequence.t \in {"int", "null"}) =>
    /\ ~Raised(ret)
    /\ ret.val.v.comment_number =
         (IF C18_Sequence.t = "int" THEN JInt(C18_Sequence.v + 1) ELSE JInt(1))
    /\ (C18_Sequence.t = "int" /\ C18_Sequence.v >= 0) => ret.val.v.comment_number.v >= 1

(* C19: _parse_comment(raw, issue_id) returns None exactly when raw is     *)
(* None, empty or not a list; otherwise it returns a Comment with the      *)
(* given issue_id whose body is the text at slot 0, or the empty string    *)
(* when slot 0 is missing, null or empty.                                  *)
C19_Absent == arg.raw_comment.t # "list" \/ arg.raw_comment.v = <<>>

C19_CommentOrAbsent ==
  Done("_parse_comment") =>
    IF C19_Absent THEN ret = Return(JNull)
    ELSE /\ ~Raised(ret)
         /\ ret.val.t = "Comment"
         /\ ret.val.v.issue_id = arg.issue_id
         /\ ret.val.v.body =
              (IF Slot(arg.raw_comment, 0) = JNull THEN JStr(<<>>) ELSE Slot(arg.raw_comment, 0))

(* C20: strip_response_prefix removes exactly one leading prefix when the  *)
(* text starts with )]}' followed by a newline, by a backslash and the     *)
(* letter n, or by CR LF, and returns the text unchanged when it starts    *)
(* with none of them; the result is always a suffix of the input.          *)
C20_Variants ==
  { <<")", "]", "}", "'", "\n">>,
    <<")", "]", "}", "'", "\\", "n">>,
    <<")", "]", "}", "'", "\r", "\n">> }

C20_Starts(text, p) == Len(text.head) >= Len(p) /\ SubSeq(text.head, 1, Len(p)) = p

C20_StripsOnePrefix ==
  Done("strip_response_prefix") =>
    /\ ~Raised(ret)
    /\ ret.val.doc = arg.doc
    /\ \A p \in C20_Variants : C20_Starts(arg, p) => p \o ret.val.head = arg.head
    /\ (\A p \in C20_Variants : ~C20_Starts(arg, p)) => ret.val = arg
    /\ \E k \in 0..Len(arg.head) : ret.val.head = SubSeq(arg.head, k + 1, Len(arg.head))

(* a text of two prefixes loses the first one only *)
C20_Witness ==
  /\ Done("strip_response_prefix")
  /\ arg.head = <<")", "]", "}", "'", "\r", "\n", ")", "]", "}", "'", "\n">>
  /\ ret.val.head = <<")", "]", "}", "'", "\n">>

(* a list of one or two numbers that the machine integers hold: in range *)
C21_InRange(raw) ==
  /\ IsInstanceList(raw)
  /\ Len(raw.v) \in {1, 2}
  /\ \A i \in 1..Len(raw.v) : IsNumber(raw.v[i]) /\ ~IsBig(raw.v[i]) /\ ~IsSpecial(raw.v[i])

(* not a list, an empty list, or seconds or nanoseconds that is no number *)
C21_Malformed(raw) ==
  \/ ~IsInstanceList(raw)
  \/ Len(raw.v) = 0
  \/ ~IsNumber(raw.v[1])
  \/ Len(raw.v) > 1 /\ ~IsNumber(raw.v[2])

(* C21: _parse_timestamp never raises; it returns absent for an input that *)
(* is not a list, an empty list, a seconds or nanoseconds element that is  *)
(* not a number and a value outside the range of instants, and the UTC     *)
(* instant seconds + nanoseconds/1e9 for in-range numbers.                 *)
C21_TimestampNeverRaises ==
  Done("_parse_timestamp") =>
    /\ ~Raised(ret)
    /\ ret.val.t \in {"null", "datetime"}
    /\ C21_Malformed(arg) => ret.val = JNull
    /\ C21_InRange(arg) =>
         ret.val = Datetime(IntOf(arg.v[1]),
                            IF Len(arg.v) > 1 THEN IntOf(arg.v[2]) ELSE 0)

(* the positions of the strings of a user-reference array *)
C22_Strings(raw) == { i \in 1..Len(raw.v) : raw.v[i].t = "str" }

(* the positions of its strings that are not empty *)
C22_NonEmptyStrings(raw) == { i \in C22_Strings(raw) : Len(raw.v[i].v) > 0 }

(* the element at the least position of a set of positions, or absent *)
C22_FirstAt(raw, positions) ==
  IF raw.t # "list" \/ positions = {} THEN JNull
  ELSE raw.v[CHOOSE i \in positions : \A j \in positions : i <= j]

(* C22 as stated: _parse_email returns the first element of the array that *)
(* is a string, whatever surrounds it, and absent when the array holds no  *)
(* string, is empty, or the input is not a list.                           *)
C22_FirstString ==
  Done("_parse_email") =>
    ~Raised(ret) /\ ret.val = C22_FirstAt(arg, IF arg.t = "list" THEN C22_Strings(arg) ELSE {})

(* C22 amended: _parse_email returns the first element of the array that   *)
(* is a string and is not empty, whatever surrounds it, and absent when    *)
(* the array holds no such string, is empty, or the input is not a list.   *)
C22_FirstNonEmptyString ==
  Done("_parse_email") =>
    /\ ~Raised(ret)
    /\ ret.val = C22_FirstAt(arg, IF arg.t = "list" THEN C22_NonEmptyStrings(arg) ELSE {})

(* a null and an empty string stand before the address that is returned *)
C22_Witness ==
  /\ Done("_parse_email")
  /\ arg = JList(<<JNull, JStr(<<>>), JStr(<<"a", "@", "x">>)>>)
  /\ ret.val = JStr(<<"a", "@", "x">>)

(* an integer that is not a boolean *)
C23_IsInteger(item) == item.t = "int"

(* C23: _parse_int_list returns, in their original order, exactly the      *)
(* elements of the input list that are integers; booleans, floats,         *)
(* strings, nulls and nested values are dropped; a missing, null or        *)
(* non-list input gives the empty list.                                    *)
C23_OnlyIntegersKept ==
  Done("_parse_int_list") =>
    /\ ~Raised(ret)
    /\ ret.val = IF arg.t = "list" THEN SelectSeq(arg.v, C23_IsInteger) ELSE <<>>

(* the count a wire slot gives: 0 when the slot is missing or null *)
C24_Count(entry, slot) ==
  IF Slot(entry, slot) = JNull THEN JInt(0) ELSE Slot(entry, slot)

(* C24: for every Issue returned by parse_issue_from_entry, star_count and *)
(* comment_count are integers and are never absent: each is 0 when its     *)
(* wire slot (slot 9 for stars, slot 11 for comments) is missing or null.  *)
C24_CountsAreIntegers ==
  (Done("parse_issue_from_entry") /\ arg \in CountEntries) =>
    /\ ~Raised(ret)
    /\ ret.val.v.star_count.t = "int"
    /\ ret.val.v.comment_count.t = "int"
    /\ Slot(arg, 9) = JNull => ret.val.v.star_count = JInt(0)
    /\ Slot(arg, 11) = JNull => ret.val.v.comment_count = JInt(0)

(* C25: parse_issue_from_entry and the four envelope decoders are pure     *)
(* functions of their arguments: a call leaves its input unchanged, no     *)
(* state is kept between calls, and two calls on equal inputs, in any      *)
(* interleaving with other decoder calls, return equal records.            *)
C25_PureDecoders ==
  Done("decoder_calls") =>
    /\ \A i \in 1..Len(arg) : ret.val.inputs[i] = arg[i].input
    /\ ret.val.table = CUSTOM_FIELD_IDS
    /\ \A i \in 1..Len(arg) : ~Raised(ret.val.outcomes[i])
    /\ \A i, j \in 1..Len(arg) :
         arg[i] = arg[j] => ret.val.outcomes[i].val = ret.val.outcomes[j].val

(* C26: every Issue in the issues of a SearchResult returned by            *)
(* parse_search_response has an integer id: a wire entry that has no       *)
(* integer at slot 1 never yields an Issue whose id is absent or not an    *)
(* integer.                                                                *)
C26_IssueIdsAreIntegers ==
  Done("parse_search_response") /\ JsonOk(arg.raw_text) /\ Slot(C4_Block, 0).t = "list" =>
    /\ ~Raised(ret)
    /\ ret.val.t = "SearchResult"
    /\ \A i \in 1..Len(ret.val.v.issues) : ret.val.v.issues[i].v.id.t = "int"

(* the result block of a page on the wire *)
C27_Block(response) == Slot(Slot(response.text.doc, 0), 6)

C27_HasToken(response) == Truthy(Slot(C27_Block(response), 1))

C27_Ids(response) ==
  [i \in 1..Len(Slot(C27_Block(response), 0).v) |-> Slot(Slot(C27_Block(response), 0).v[i], 1)]

(* the ids the server has to give, page after page, until a page has no    *)
(* token                                                                   *)
RECURSIVE C27_Available(_)
C27_Available(responses) ==
  IF responses = <<>> THEN <<>>
  ELSE C27_Ids(Head(responses))
       \o (IF C27_HasToken(Head(responses)) THEN C27_Available(Tail(responses)) ELSE <<>>)

(* every answer is a page, and the pages run out *)
C27_Served(responses) ==
  /\ \A n \in 1..Len(responses) : responses[n].kind = "ok"
  /\ \E n \in 1..Len(responses) : ~C27_HasToken(responses[n])

C27_Least(a, b) == IF a < b THEN a ELSE b

(* C27: cmd_search with a limit L requests a further page only while fewer *)
(* than L issues are collected and the latest result has more pages: it    *)
(* never uses the outcome of next_page on a result whose has_more is       *)
(* false, it stops as soon as L issues are collected or the pages run out, *)
(* and it outputs at most L issues, in page order.                         *)
C27_PagesUpToLimit ==
  (Done("cmd_search") /\ arg.limit.t = "int" /\ arg.limit.v >= 0
     /\ C27_Served(arg.responses)) =>
    /\ ~Raised(ret)
    /\ \A k \in 1..Len(ret.val.asked) : ret.val.asked[k]
    /\ Len(ret.val.printed) = C27_Least(arg.limit.v, Len(C27_Available(arg.responses)))
    /\ \A i \in 1..Len(ret.val.printed) :
         ret.val.printed[i].v.id = C27_Available(arg.responses)[i]

(* the update entries of the response, in wire order *)
C28_Entries == Matching(Slot(C16_UpdatesBlock, 0), IsListShaped)

(* slot 9 of an update entry, 0 when it is missing or null *)
C28_IssueId(update_entry) ==
  IF Slot(update_entry, 9) = JNull THEN JInt(0) ELSE Slot(update_entry, 9)

(* C28: for every IssueUpdate u produced by parse_updates_response that    *)
(* carries a comment, u.comment.issue_id equals u.issue_id: both come from *)
(* slot 9 of the update entry (0 when that slot is missing or null), and   *)
(* the issue id inside the comment sub-array at slot 5 is not used.        *)
C28_CommentSharesIssueId ==
  (Done("parse_updates_response") /\ JsonOk(arg) /\ Slot(C16_UpdatesBlock, 0).t = "list") =>
    /\ ~Raised(ret)
    /\ Len(ret.val.v.updates) = Len(C28_Entries)
    /\ \A i \in 1..Len(C28_Entries) :
         /\ ret.val.v.updates[i].v.issue_id = C28_IssueId(C28_Entries[i])
         /\ ret.val.v.updates[i].v.comment.t = "Comment" =>
              ret.val.v.updates[i].v.comment.v.issue_id = C28_IssueId(C28_Entries[i])

(* C29: when a known list-of-strings custom field (for example os) is      *)
(* classified as a number because the numeric slot of its entry is         *)
(* populated, parse_issue_from_entry leaves the named attribute as the     *)
(* empty list and also removes the value from custom_fields, so the        *)
(* decoded value appears nowhere on the returned Issue.                    *)
C29_NumericListFieldLost ==
  (Done("parse_issue_from_entry") /\ C15_Only(1223084, JInt(5), JNull, JNull)) =>
    /\ ~Raised(ret)
    /\ ret.val.v.os = JList(<<>>)
    /\ ~DictHas(ret.val.v.custom_fields, <<"os">>)
    /\ ret.val.v.custom_fields = <<>>

(* the integers, in order, of the list at a slot of the entry *)
C30_Integers(raw_list) ==
  IF raw_list.t = "list" THEN SelectSeq(raw_list.v, IsWireInt) ELSE <<>>

(* C30: parse_issue_from_entry fills blocking_issue_ids with the integers, *)
(* in order, of the list at top-level slot 36 of the issue entry (slot 36  *)
(* of [10, 20] gives blocking_issue_ids == [10, 20]).                      *)
C30_BlockingIdsFromSlot36 ==
  (Done("parse_issue_from_entry") /\ arg \in BlockingEntries) =>
    /\ ~Raised(ret)
    /\ ret.val.v.blocking_issue_ids = C30_Integers(Slot(arg, 36))

====
